---- MODULE Spec2Model ----
(***************************************************************************)
(* Offline-first data layer of MyLife (src/data.js): the Record Store, the *)
(* Sync Queue, the public mutation API and the sync engine (push drain and *)
(* pull-merge), with the asynchronous tasks interleaved at their           *)
(* suspension points (every IndexedDB transaction, every network call).    *)
(*                                                                         *)
(* Abstraction.  A record keeps its primary key, its date (the natural key *)
(* of the date-indexed store that is modelled), one payload field and the  *)
(* sync metadata.  One date-indexed store ("health"), one id-keyed store   *)
(* ("goals") and the key-value store ("profile") are modelled; the other   *)
(* stores differ from these only by their column lists.  The field "op" of *)
(* a record is a history field: the number of the local mutation call that *)
(* last wrote the record (0 for a record that came from a pull).  The code *)
(* never reads it.                                                         *)
(***************************************************************************)
EXTENDS Integers, Sequences, FiniteSets, TLC

VARIABLES
    store,      \* the Record Store: the set of records of all tables
    queue,      \* the sync_queue table: a set of entries keyed by id
    nextId,     \* per table, the next auto-increment / client-generated key
    nextQid,    \* the next auto-increment id of sync_queue
    mut,        \* the mutation calls in flight (save / update / delete / saveProfile)
    cyc,        \* the sync cycles and background pulls in flight
    now,        \* the value Date.now() returns
    online,     \* navigator.onLine
    scriptUrl,  \* TRUE when DataStore._scriptUrl is set
    nOps,       \* history: mutation calls made so far
    nSyncs,     \* history: sync cycles started so far
    stats,      \* history: per queue id ever assigned, the mutation call that
                \* enqueued it and the pushes issued / failed / accepted for it
    gets,       \* the get calls in flight
    lastPull,   \* _lastPullTimestamps: per pull key, the time of the last pull
    got,        \* history: what the get call that returned last was asked
                \* and what it returned
    pulls,      \* history: the background pulls get has started, in order
    nGets,      \* history: get calls made so far
    ret,        \* history: what the mutation call that returned last returned
    remote      \* the rows of the backend's profile sheet, as <<key, value>>

\* The state of the read path
getVars == <<gets, lastPull, got, pulls, nGets>>

vars == <<store, queue, nextId, nextQid, mut, cyc, now, online, scriptUrl,
          nOps, nSyncs, stats, getVars, ret, remote>>

-----------------------------------------------------------------------------
(* Program constants *)

MAX_RETRIES == 3

\* STALE_THRESHOLD_MS, 5 minutes, in units of the model's clock
STALE_THRESHOLD_MS == 1

DATE_INDEXED_STORES == <<"health">>

IdStores == {"health", "goals"}

\* Every store with keyPath 'id' and autoIncrement: the stores the model
\* mutates and one more date-indexed store, which it only pulls
KeyedStores == IdStores \cup {"water"}

Sheets == IdStores \cup {"profile"}

-----------------------------------------------------------------------------
(* Bounds of the model *)

MaxOps     == 2     \* Spec: mutation calls in a behaviour
MaxSyncs   == 2     \* Spec: sync cycles started in a behaviour
MaxRows    == 1     \* Spec: rows in one read response
DrainOps   == 2     \* SpecDrain: mutation calls in a behaviour
DrainSyncs == 2     \* SpecDrain: sync cycles started in a behaviour
MergeOps   == 1     \* SpecMerge: mutation calls in a behaviour
MergeSyncs == 1     \* SpecMerge: sync cycles started in a behaviour
MergeRows  == 2     \* SpecMerge: rows in one read response
GetOps     == 2     \* SpecGet: mutation calls in a behaviour
GetSyncs   == 1     \* SpecGet: sync cycles started in a behaviour
GetRows    == 1     \* SpecGet: rows in one read response
MaxGets    == 1     \* SpecGet: get calls in a behaviour
StaleGets  == 2     \* SpecStale: get calls in a behaviour
StaleClock == 2     \* SpecStale: Date.now() ranges over 0..StaleClock
AcceptOps   == 2    \* SpecAccept: mutation calls in a behaviour
AcceptSyncs == 4    \* SpecAccept: sync cycles started in a behaviour

Cycles   == {1, 2}  \* sync cycles / pulls that can be in flight at once
Clock    == {0, 1}  \* readings of Date.now(): an earlier and a later one
MutSlots == {1}     \* mutation calls that can be in flight at once
Dates    == {"d1"}
Keys     == {1, 2}  \* keys an update / delete call can name
SaveVals   == {"a"}      \* payload values written by save / saveProfile
UpdateVals == {"b"}      \* payload values written by update
RemoteVals == {"r"}      \* payload values of pulled rows
ProfileKeys == {1}
GetSlots == {1, 2}  \* get calls that can be in flight at once
\* The options a get call is made with ("" and 0: option not given)
GetOptions ==
    {[date |-> "",   from |-> "",   to |-> "",   limit |-> 0],
     [date |-> "d1", from |-> "",   to |-> "",   limit |-> 0],
     [date |-> "",   from |-> "d1", to |-> "d2", limit |-> 1],
     [date |-> "",   from |-> "d2", to |-> "d1", limit |-> 0],
     [date |-> "",   from |-> "d2", to |-> "",   limit |-> 0]}

Null == -1          \* null / undefined

-----------------------------------------------------------------------------
(* Records, queue entries and the IndexedDB primitives *)

\* The value of a variable that holds no record (null).
NoRec ==
    [sheet |-> "", key |-> Null, date |-> "", val |-> "", synced |-> FALSE,
     modified |-> 0, deleted |-> FALSE, rowIndex |-> Null,
     sheetRowIndex |-> Null, op |-> 0]

Range(f) == {f[i] : i \in DOMAIN f}

\* x || null
OrNull(x) == IF x = Null \/ x = 0 THEN Null ELSE x

\* store.get(key)
StoreGet(st, s, k) ==
    IF \E r \in st : r.sheet = s /\ r.key = k
    THEN CHOOSE r \in st : r.sheet = s /\ r.key = k
    ELSE NoRec

\* store.put(rec): insert or replace by key
StorePut(st, rec) ==
    {r \in st : ~(r.sheet = rec.sheet /\ r.key = rec.key)} \cup {rec}

\* store.delete(key)
StoreDelete(st, s, k) == {r \in st : ~(r.sheet = s /\ r.key = k)}

\* Mutant of SortById: the comparator reversed (b.id - a.id)
RECURSIVE SortByIdReversed(_)
SortByIdReversed(S) ==
    IF S = {} THEN <<>>
    ELSE LET m == CHOOSE e \in S : \A f \in S : e.id >= f.id
         IN  <<m>> \o SortByIdReversed(S \ {m})

\* queueItems.sort((a, b) => a.id - b.id)
RECURSIVE SortById(_)
SortById(S) ==
    IF S = {} THEN <<>>
    ELSE LET m == CHOOSE e \in S : \A f \in S : e.id <= f.id
         IN  <<m>> \o SortById(S \ {m})

\* _enqueue(sheet, action, data, rowIndex): the entry added to sync_queue
NewEntry(s, action, data, rowIndex) ==
    [id |-> nextQid, sheet |-> s, action |-> action, data |-> data,
     rowIndex |-> OrNull(rowIndex), retries |-> 0]

\* _removeFromQueue(queueId)
RemoveFromQueue(q, qid) == {e \in q : e.id # qid}

IncrementRetriesDropping(q, qid, currentRetries) == {e \in q : e.id # qid}

IncrementRetriesToLimit(q, qid, currentRetries) ==
    {IF e.id = qid THEN [e EXCEPT !.retries = MAX_RETRIES] ELSE e : e \in q}

\* _incrementRetries(queueId, currentRetries)
IncrementRetries(q, qid, currentRetries) ==
    {IF e.id = qid THEN [e EXCEPT !.retries = currentRetries + 1] ELSE e : e \in q}

\* _markSynced(sheet, data)
MarkSynced(st, s, data) ==
    IF s = "profile"            \* data.id === undefined
    THEN st
    ELSE LET rec == StoreGet(st, s, data.key)
         IN  IF rec = NoRec THEN st
             ELSE StorePut(st, [rec EXCEPT !.synced = TRUE])

\* _purgeDeleted(sheet, data)
PurgeDeleted(st, s, data) == StoreDelete(st, s, data.key)

\* The rowIndex _pushToSheets puts in the body of an update / delete request
BodyRowIndex(item) ==
    IF OrNull(item.rowIndex) # Null THEN item.rowIndex
    ELSE IF OrNull(item.data.rowIndex) # Null THEN item.data.rowIndex
    ELSE IF OrNull(item.data.sheetRowIndex) # Null THEN item.data.sheetRowIndex
    ELSE Null

GatewayActionUpdatingProfile(item) ==
    CASE item.action = "append" -> "append"
      [] item.action = "update" -> "update"
      [] item.action = "delete" -> "delete"
      [] OTHER -> "none"

\* The gateway action _pushToSheets posts for a queue entry
GatewayAction(item) ==
    CASE item.action = "append" -> "append"
      [] item.action = "update" /\ item.sheet = "profile" -> "write"
      [] item.action = "update" -> "update"
      [] item.action = "delete" -> "delete"
      [] OTHER -> "none"

\* objectToRowArray(sheet, obj): the columns of the sheet in order, '' for a
\* missing value; the date-indexed sheets have no id column
ObjectToRowArray(s, obj) ==
    IF s \in {"health", "water"} THEN <<obj.date, obj.val>>
    ELSE <<IF OrNull(obj.key) = Null THEN "" ELSE obj.key, obj.val>>

\* default: the action is unknown, nothing is posted, false is returned
NoRequest == [posted |-> FALSE, action |-> "none", sheet |-> "", rows |-> <<>>,
              rowIndex |-> Null]

\* _pushToSheets(queueItem): the request it posts (rows stands for the rows
\* of append and write and for the row of update)
PushRequest(item) ==
    IF GatewayAction(item) = "none" THEN NoRequest
    ELSE [posted |-> TRUE, action |-> GatewayAction(item), sheet |-> item.sheet,
          rows |-> IF GatewayAction(item) = "delete" THEN <<>>
                   ELSE <<ObjectToRowArray(item.sheet, item.data)>>,
          rowIndex |-> IF GatewayAction(item) \in {"update", "delete"}
                       THEN BodyRowIndex(item) ELSE Null]

\* handleWrite(body): the data rows of the sheet are cleared and the rows of
\* the request are written in their place
HandleWrite(sheetRows, rows) == Range(rows)

\* The answer of the Apps Script handlers to a well-formed request for an
\* existing sheet: handleUpdate and handleDelete refuse a missing rowIndex.
HandlerAccepts(item) ==
    CASE GatewayAction(item) \in {"append", "write"} -> TRUE
      [] GatewayAction(item) \in {"update", "delete"} -> BodyRowIndex(item) # Null
      [] OTHER -> FALSE

-----------------------------------------------------------------------------
(* Sync cycle: task state and the synchronous code between two awaits *)

IdleMut == [pc |-> "idle", sheet |-> "", rec |-> NoRec, arg |-> "", op |-> 0]

\* sent, answered and halted are history fields: the queue ids for which this
\* cycle issued a push request, in order, the number of answers it received,
\* and whether it left the push loop by the break. So are accepted (answers
\* with success: true), discarded (entries removed as exhausted), written
\* (rows the pull phase has put into a table) and fetches (reads the pull
\* phase has issued). caller is "client" for a call whose promise is awaited.
IdleCycle ==
    [pc |-> "idle", items |-> <<>>, idx |-> 0, pushed |-> 0, errors |-> 0,
     pulled |-> 0, sent |-> <<>>, answered |-> 0, halted |-> FALSE, psheets |-> <<>>,
     rows |-> <<>>, ridx |-> 0, merged |-> 0, obj |-> NoRec, match |-> NoRec,
     caller |-> "", accepted |-> 0, discarded |-> 0, written |-> 0, fetches |-> 0,
     pullStores |-> <<>>]

FreeCycle ==
    CHOOSE c \in Cycles :
        cyc[c].pc = "idle" /\ \A d \in Cycles : cyc[d].pc = "idle" => c <= d

\* End of syncNow: the result {pushed, pulled, errors} is dispatched and
\* returned. The timer, the listeners and the mutations drop the promise; a
\* client that awaits it holds the result (here: in the slot, with the
\* cycle's history, until the slot is used again).
FinishCycle(cy) == IF cy.caller = "client" THEN [cy EXCEPT !.pc = "idle"] ELSE IdleCycle

\* for (const sheet of pullStores): _pullFromSheets(sheet, today, today) up
\* to its fetch; without a script URL every call returns 0 at once.
StartFetch(cy, sheets) ==
    IF sheets = <<>> \/ ~scriptUrl
    THEN FinishCycle(cy)
    ELSE [cy EXCEPT !.pc = "fetch", !.psheets = sheets, !.rows = <<>>,
                    !.ridx = 0, !.merged = 0, !.obj = NoRec, !.match = NoRec,
                    !.fetches = @ + 1]

StartPullUnlessHalted(cy) ==
    IF cy.halted THEN FinishCycle(cy) ELSE StartFetch(cy, cy.pullStores)

\* The push loop has ended (queue exhausted, or break): the pull phase starts.
StartPull(cy) == StartFetch(cy, cy.pullStores)

StartItemSendingAll(cy, i) ==
    IF i > Len(cy.items) THEN StartPull([cy EXCEPT !.idx = i])
    ELSE [cy EXCEPT !.pc = "push", !.idx = i, !.sent = Append(@, cy.items[i].id)]

\* The push loop reaches items[i]: an exhausted entry is to be removed, any
\* other entry is transmitted (the request is issued here).
StartItem(cy, i) ==
    IF i > Len(cy.items) THEN StartPull([cy EXCEPT !.idx = i])
    ELSE IF cy.items[i].retries >= MAX_RETRIES
         THEN [cy EXCEPT !.pc = "discard", !.idx = i]
         ELSE [cy EXCEPT !.pc = "push", !.idx = i,
                         !.sent = Append(@, cy.items[i].id)]

\* const pullStores = DATE_INDEXED_STORES: of the ten stores the model pulls
\* one, and two in an awaited cycle, whose result shows what followed a
\* failed pull
PullStores(caller) ==
    IF caller = "client" THEN DATE_INDEXED_STORES \o <<"water">> ELSE DATE_INDEXED_STORES

\* const queueItems = getAll(); queueItems.sort(...); then the loop starts
StartCycleFor(q, caller) ==
    StartItem([IdleCycle EXCEPT !.items = SortById(q), !.caller = caller,
                                !.pullStores = PullStores(caller)], 1)

StartCycle(q) == StartCycleFor(q, "")

Bump(st, qid, f) == [st EXCEPT ![qid][f] = @ + 1]

\* history: count the request a cycle has just issued
Issued(old, new, st) ==
    IF new.pc = "push" /\ Len(new.sent) > Len(old.sent)
    THEN Bump(st, new.items[new.idx].id, "sent")
    ELSE st

CanSyncWhenOnline == online

\* !( !this.isOnline() || !this._scriptUrl )
CanSync == online /\ scriptUrl

\* this.syncNow() with the queue being q: a no-op when offline or
\* unconfigured.
SyncNowFor(q, st, maxSyncs, caller) ==
    IF CanSync /\ nSyncs < maxSyncs /\ \E c \in Cycles : cyc[c].pc = "idle"
    THEN LET cy == StartCycleFor(q, caller) IN
         /\ cyc' = [cyc EXCEPT ![FreeCycle] = cy]
         /\ nSyncs' = nSyncs + 1
         /\ stats' = Issued(IdleCycle, cy, st)
    ELSE /\ UNCHANGED <<cyc, nSyncs>>
         /\ stats' = st

\* this.syncNow().catch(() => {}), from an event handler or after a mutation
SyncNow(q, st, maxSyncs) == SyncNowFor(q, st, maxSyncs, "")

-----------------------------------------------------------------------------
(* Public Store API: save / update / delete / saveProfile *)

FreeMut(t) ==
    mut[t].pc = "idle" /\ \A u \in MutSlots : mut[u].pc = "idle" => t <= u

\* save, up to the end of the store.add transaction
SaveWrite(t, s, d, v, maxOps) ==
    /\ FreeMut(t) /\ nOps < maxOps
    /\ LET record == [sheet |-> s, key |-> nextId[s], date |-> d, val |-> v,
                      synced |-> FALSE, modified |-> now, deleted |-> FALSE,
                      rowIndex |-> Null, sheetRowIndex |-> Null, op |-> nOps + 1]
       IN  /\ store' = store \cup {record}
           /\ mut' = [mut EXCEPT ![t] = [IdleMut EXCEPT !.pc = "save_enq",
                                         !.sheet = s, !.rec = record]]
    /\ nextId' = [nextId EXCEPT ![s] = @ + 1]
    /\ nOps' = nOps + 1
    /\ UNCHANGED <<queue, nextQid, cyc, now, online, scriptUrl, remote, getVars, ret, nSyncs, stats>>

\* The _enqueue transaction of a mutation, the opportunistic syncNow and the return
\* No mutation call has returned yet
NoReturn == [call |-> "", sheet |-> "", key |-> Null, value |-> ""]

\* return record / return updated / return true / return record, by the
\* place the call has reached
Returns(pc, rec) ==
    [NoReturn EXCEPT !.sheet = rec.sheet, !.key = rec.key,
        !.call  = CASE pc = "save_enq" -> "save"   [] pc = "upd_enq"  -> "update"
                    [] pc = "del_enq"  -> "delete" [] pc = "prof_enq" -> "saveProfile",
        !.value = IF pc = "del_enq" THEN "true" ELSE "record"]

Enqueue(t, pc, action, maxSyncs) ==
    /\ mut[t].pc = pc
    /\ LET entry == NewEntry(mut[t].sheet, action, mut[t].rec, mut[t].rec.rowIndex)
       IN  /\ queue' = queue \cup {entry}
           /\ SyncNow(queue', stats @@ (nextQid :> [op |-> mut[t].rec.op, sent |-> 0,
                                                         failed |-> 0, acc |-> 0,
                                                         action |-> action,
                                                         sheet |-> mut[t].sheet,
                                                         key |-> mut[t].rec.key]),
                      maxSyncs)
    /\ nextQid' = nextQid + 1
    /\ mut' = [mut EXCEPT ![t] = IdleMut]
    /\ ret' = Returns(pc, mut[t].rec)
    /\ UNCHANGED <<store, nextId, now, online, scriptUrl, remote, getVars, nOps>>

SaveEnqueue(t, maxSyncs) == Enqueue(t, "save_enq", "append", maxSyncs)

NotFoundNever(existing) == FALSE

\* if (!existing)
NotFound(existing) == existing = NoRec

\* update: the read transaction; an unknown key returns null
UpdateRead(t, s, k, v, maxOps) ==
    /\ FreeMut(t) /\ nOps < maxOps
    /\ LET existing == StoreGet(store, s, k)
       IN  /\ mut' = IF NotFound(existing) THEN mut
                  ELSE [mut EXCEPT ![t] = [pc |-> "upd_write", sheet |-> s,
                                           rec |-> existing, arg |-> v, op |-> nOps + 1]]
           /\ nOps' = IF NotFound(existing) THEN nOps ELSE nOps + 1
           /\ ret' = IF NotFound(existing)
                     THEN [call |-> "update", sheet |-> s, key |-> k, value |-> "null"]
                     ELSE ret
    /\ UNCHANGED <<store, queue, nextId, nextQid, cyc, now, online, scriptUrl, remote, getVars, nSyncs, stats>>

\* update: the store.put transaction
UpdateWrite(t) ==
    /\ mut[t].pc = "upd_write"
    /\ LET updated == [mut[t].rec EXCEPT !.val = mut[t].arg, !.synced = FALSE,
                                         !.modified = now, !.op = mut[t].op]
       IN  /\ store' = StorePut(store, updated)
           /\ mut' = [mut EXCEPT ![t] = [@ EXCEPT !.pc = "upd_enq", !.rec = updated, !.arg = ""]]
    /\ UNCHANGED <<queue, nextId, nextQid, cyc, now, online, scriptUrl, remote, getVars, ret, nOps, nSyncs, stats>>

UpdateEnqueue(t, maxSyncs) == Enqueue(t, "upd_enq", "update", maxSyncs)

\* delete: the read transaction; an unknown key returns false
DeleteRead(t, s, k, maxOps) ==
    /\ FreeMut(t) /\ nOps < maxOps
    /\ LET existing == StoreGet(store, s, k)
       IN  /\ mut' = IF NotFound(existing) THEN mut
                  ELSE [mut EXCEPT ![t] = [pc |-> "del_write", sheet |-> s,
                                           rec |-> existing, arg |-> "", op |-> nOps + 1]]
           /\ nOps' = IF NotFound(existing) THEN nOps ELSE nOps + 1
           /\ ret' = IF NotFound(existing)
                     THEN [call |-> "delete", sheet |-> s, key |-> k, value |-> "false"]
                     ELSE ret
    /\ UNCHANGED <<store, queue, nextId, nextQid, cyc, now, online, scriptUrl, remote, getVars, nSyncs, stats>>

\* delete: the store.put transaction that writes the tombstone
DeleteWrite(t) ==
    /\ mut[t].pc = "del_write"
    /\ LET deleted == [mut[t].rec EXCEPT !.deleted = TRUE, !.synced = FALSE,
                                         !.modified = now, !.op = mut[t].op]
       IN  /\ store' = StorePut(store, deleted)
           /\ mut' = [mut EXCEPT ![t] = [@ EXCEPT !.pc = "del_enq", !.rec = deleted]]
    /\ UNCHANGED <<queue, nextId, nextQid, cyc, now, online, scriptUrl, remote, getVars, ret, nOps, nSyncs, stats>>

DeleteEnqueue(t, maxSyncs) == Enqueue(t, "del_enq", "delete", maxSyncs)

\* saveProfile, up to the end of the store.put transaction
SaveProfileWrite(t, k, v, maxOps) ==
    /\ FreeMut(t) /\ nOps < maxOps
    /\ LET record == [sheet |-> "profile", key |-> k, date |-> "", val |-> v,
                      synced |-> FALSE, modified |-> now, deleted |-> FALSE,
                      rowIndex |-> Null, sheetRowIndex |-> Null, op |-> nOps + 1]
       IN  /\ store' = StorePut(store, record)
           /\ mut' = [mut EXCEPT ![t] = [IdleMut EXCEPT !.pc = "prof_enq",
                                         !.sheet = "profile", !.rec = record]]
    /\ nOps' = nOps + 1
    /\ UNCHANGED <<queue, nextId, nextQid, cyc, now, online, scriptUrl, remote, getVars, ret, nSyncs, stats>>

SaveProfileEnqueue(t, maxSyncs) == Enqueue(t, "prof_enq", "update", maxSyncs)

-----------------------------------------------------------------------------
(* Sync engine: push phase *)

Item(c) == cyc[c].items[cyc[c].idx]

\* syncNow started by the interval timer or by the user (the queue is read)
TimerSync(maxSyncs) ==
    /\ online /\ scriptUrl /\ nSyncs < maxSyncs
    /\ \E c \in Cycles : cyc[c].pc = "idle"
    /\ SyncNow(queue, stats, maxSyncs)
    /\ UNCHANGED <<store, queue, nextId, nextQid, mut, now, online, scriptUrl, remote, getVars, ret, nOps>>

\* DataStore.syncNow() called by a client (the sync button, the 'online'
\* listener): offline or unconfigured it returns {pushed: 0, pulled: 0,
\* errors: 0} at once; otherwise a cycle starts, whose result comes at its end.
SyncNowCall(maxSyncs) ==
    /\ CanSync => (nSyncs < maxSyncs /\ \E c \in Cycles : cyc[c].pc = "idle")
    /\ SyncNowFor(queue, stats, maxSyncs, "client")
    /\ ret' = IF CanSync THEN ret
              ELSE [NoReturn EXCEPT !.call = "syncNow", !.value = "zeros"]
    /\ UNCHANGED <<store, queue, nextId, nextQid, mut, now, online, scriptUrl, remote, getVars, nOps>>

\* item.retries >= MAX_RETRIES: _removeFromQueue, errors++, continue
Discard(c) ==
    /\ cyc[c].pc = "discard"
    /\ queue' = RemoveFromQueue(queue, Item(c).id)
    /\ LET cy == StartItem([cyc[c] EXCEPT !.errors = @ + 1, !.discarded = @ + 1],
                           cyc[c].idx + 1)
       IN  /\ cyc' = [cyc EXCEPT ![c] = cy]
           /\ stats' = Issued(cyc[c], cy, stats)
    /\ UNCHANGED <<store, nextId, nextQid, mut, now, online, scriptUrl, remote, getVars, ret, nOps, nSyncs>>

\* The gateway answers {success: true}: _markSynced runs
PushAccepted(c) ==
    /\ cyc[c].pc = "push"
    /\ HandlerAccepts(Item(c))
    /\ store' = MarkSynced(store, Item(c).sheet, Item(c).data)
    /\ cyc' = [cyc EXCEPT ![c] = [@ EXCEPT !.pc = "remove", !.answered = @ + 1,
                                              !.accepted = @ + 1]]
    /\ stats' = Bump(stats, Item(c).id, "acc")
    /\ remote' = IF GatewayAction(Item(c)) = "write"
                 THEN HandleWrite(remote, PushRequest(Item(c)).rows)
                 ELSE remote
    /\ UNCHANGED <<queue, nextId, nextQid, mut, now, online, scriptUrl, getVars, ret, nOps, nSyncs>>

NeedsPurgeAlways(item) == TRUE

\* if (item.action === 'delete')
NeedsPurge(item) == item.action = "delete"

\* after a success: _removeFromQueue; then the purge of a delete, or pushed++
RemoveSynced(c) ==
    /\ cyc[c].pc = "remove"
    /\ queue' = RemoveFromQueue(queue, Item(c).id)
    /\ LET cy == IF NeedsPurge(Item(c))
                 THEN [cyc[c] EXCEPT !.pc = "purge"]
                 ELSE StartItem([cyc[c] EXCEPT !.pushed = @ + 1], cyc[c].idx + 1)
       IN  /\ cyc' = [cyc EXCEPT ![c] = cy]
           /\ stats' = Issued(cyc[c], cy, stats)
    /\ UNCHANGED <<store, nextId, nextQid, mut, now, online, scriptUrl, remote, getVars, ret, nOps, nSyncs>>

\* after a successful delete: _purgeDeleted, pushed++
Purge(c) ==
    /\ cyc[c].pc = "purge"
    /\ store' = PurgeDeleted(store, Item(c).sheet, Item(c).data)
    /\ LET cy == StartItem([cyc[c] EXCEPT !.pushed = @ + 1], cyc[c].idx + 1)
       IN  /\ cyc' = [cyc EXCEPT ![c] = cy]
           /\ stats' = Issued(cyc[c], cy, stats)
    /\ UNCHANGED <<queue, nextId, nextQid, mut, now, online, scriptUrl, remote, getVars, ret, nOps, nSyncs>>

\* The gateway answers {success: false}: _incrementRetries, errors++, next item
PushRejected(c) ==
    /\ cyc[c].pc = "push"
    /\ queue' = IncrementRetries(queue, Item(c).id, Item(c).retries)
    /\ LET cy == StartItem([cyc[c] EXCEPT !.errors = @ + 1, !.answered = @ + 1],
                           cyc[c].idx + 1)
       IN  /\ cyc' = [cyc EXCEPT ![c] = cy]
           /\ stats' = Issued(cyc[c], cy, Bump(stats, Item(c).id, "failed"))
    /\ UNCHANGED <<store, nextId, nextQid, mut, now, online, scriptUrl, remote, getVars, ret, nOps, nSyncs>>

\* fetch throws (transport failure): _incrementRetries, errors++, break
PushFailed(c) ==
    /\ cyc[c].pc = "push"
    /\ queue' = IncrementRetries(queue, Item(c).id, Item(c).retries)
    /\ cyc' = [cyc EXCEPT ![c] = StartPull([@ EXCEPT !.errors = @ + 1,
                                                      !.answered = @ + 1,
                                                      !.halted = TRUE])]
    /\ stats' = Bump(stats, Item(c).id, "failed")
    /\ UNCHANGED <<store, nextId, nextQid, mut, now, online, scriptUrl, remote, getVars, ret, nOps, nSyncs>>

-----------------------------------------------------------------------------
(* Sync engine: pull phase and merge *)

\* The decoded rows a read of sheet s can return
RowSet(s) ==
    CASE s \in {"health", "water"} -> [key : {Null}, date : Dates, val : RemoteVals]
      [] s = "goals"   -> [key : {1}, date : {""}, val : RemoteVals]
      [] s = "profile" -> [key : ProfileKeys, date : {""}, val : RemoteVals]

RECURSIVE SeqsUpTo(_, _)
SeqsUpTo(S, n) ==
    IF n = 0 THEN {<<>>}
    ELSE LET shorter == SeqsUpTo(S, n - 1)
         IN  shorter \cup {Append(q, x) : q \in {r \in shorter : Len(r) = n - 1}, x \in S}

EndPullAborting(cy, count) ==
    IF count = 0 THEN FinishCycle(cy)
    ELSE StartFetch([cy EXCEPT !.pulled = @ + count], Tail(cy.psheets))

\* The pull of one sheet has ended with count merged records (or has thrown,
\* which syncNow swallows): the next sheet is pulled, or the cycle ends.
EndPull(cy, count) ==
    StartFetch([cy EXCEPT !.pulled = @ + count], Tail(cy.psheets))

\* fetch throws, or the body is malformed, or success is false, or no rows
FetchNothing(c) ==
    /\ cyc[c].pc = "fetch"
    /\ cyc' = [cyc EXCEPT ![c] = EndPull(@, 0)]
    /\ UNCHANGED <<store, queue, nextId, nextQid, mut, now, online, scriptUrl, remote, getVars, ret,
                   nOps, nSyncs, stats>>

\* The read answers {success: true, data: rows} with rows drawn from rowSet
FetchRowsFrom(c, rowSet, maxRows) ==
    /\ cyc[c].pc = "fetch"
    /\ \E rows \in SeqsUpTo(rowSet, maxRows) \ {<<>>} :
           cyc' = [cyc EXCEPT ![c] = [@ EXCEPT !.pc = "find", !.rows = rows, !.ridx = 1]]
    /\ UNCHANGED <<store, queue, nextId, nextQid, mut, now, online, scriptUrl, remote, getVars, ret,
                   nOps, nSyncs, stats>>

\* The read answers {success: true, data: rows}
FetchRows(c, maxRows) ==
    /\ cyc[c].pc = "fetch"
    /\ FetchRowsFrom(c, RowSet(Head(cyc[c].psheets)), maxRows)

\* keys.every(k => String(cand[k]) === String(obj[k])) for the natural key
NaturalKeyMatches(cand, obj) == cand.date = obj.date

\* _findMatchingRecord(db, sheet, obj)
FindMatchingRecord(st, s, obj) ==
    IF s = "profile" THEN StoreGet(st, s, obj.key)
    ELSE IF s = "goals"
         THEN IF OrNull(obj.key) # Null THEN StoreGet(st, s, obj.key) ELSE NoRec
         ELSE LET candidates == {r \in st : r.sheet = s /\ r.date = obj.date}
                  hits == {r \in candidates : NaturalKeyMatches(r, obj)}
              IN  IF obj.date = "" \/ hits = {} THEN NoRec
                  ELSE CHOOSE r \in hits : \A x \in hits : r.key <= x.key

StampRowUnsynced(s, row, i) ==
    [sheet |-> s, key |-> row.key, date |-> row.date, val |-> row.val,
     synced |-> FALSE, modified |-> now, deleted |-> FALSE,
     rowIndex |-> Null, sheetRowIndex |-> i, op |-> 0]

\* rowArrayToObject(sheet, rowArr), then _sheetRowIndex = i, _synced = true,
\* _modified = Date.now(), _deleted = false
StampRow(s, row, i) ==
    [sheet |-> s, key |-> row.key, date |-> row.date, val |-> row.val,
     synced |-> TRUE, modified |-> now, deleted |-> FALSE,
     rowIndex |-> Null, sheetRowIndex |-> i, op |-> 0]

\* rows[i] decoded and stamped, then the lookup of the matching local record
PullFind(c) ==
    /\ cyc[c].pc = "find"
    /\ LET s   == Head(cyc[c].psheets)
           row == cyc[c].rows[cyc[c].ridx]
           obj == StampRow(s, row, cyc[c].ridx - 1)
       IN  cyc' = [cyc EXCEPT ![c] = [@ EXCEPT !.pc = "merge", !.obj = obj,
                                      !.match = FindMatchingRecord(store, s, obj)]]
    /\ UNCHANGED <<store, queue, nextId, nextQid, mut, now, online, scriptUrl, remote, getVars, ret,
                   nOps, nSyncs, stats>>

KeepLocalWhenOlder(match, obj) == ~match.synced /\ match.modified < obj.modified

\* match._synced === false && match._modified > obj._modified
KeepLocal(match, obj) == ~match.synced /\ match.modified > obj.modified

RemoteWinsKeepingFields(match, obj) ==
    [match EXCEPT !.synced = obj.synced, !.modified = obj.modified,
                  !.deleted = obj.deleted, !.sheetRowIndex = obj.sheetRowIndex,
                  !.rowIndex = obj.sheetRowIndex]

\* Object.assign({}, match, obj, {id: match.id, _rowIndex: obj._sheetRowIndex})
RemoteWins(match, obj) ==
    [match EXCEPT !.date = obj.date, !.val = obj.val, !.synced = obj.synced,
                  !.modified = obj.modified, !.deleted = obj.deleted,
                  !.sheetRowIndex = obj.sheetRowIndex,
                  !.rowIndex = obj.sheetRowIndex]

\* The merge of the row just looked up, then the next row or the end of the pull
PullMerge(c) ==
    /\ cyc[c].pc = "merge"
    /\ LET s     == Head(cyc[c].psheets)
           obj   == cyc[c].obj
           match == cyc[c].match
           keep  == match # NoRec /\ KeepLocal(match, obj)
           count == IF keep THEN cyc[c].merged ELSE cyc[c].merged + 1
           cy    == [cyc[c] EXCEPT !.merged = count, !.obj = NoRec, !.match = NoRec,
                                   !.written = IF keep THEN @ ELSE @ + 1]
       IN  /\ IF match = NoRec
              THEN IF s \in {"profile", "goals"}
                   THEN /\ store' = StorePut(store, obj)
                        /\ UNCHANGED nextId
                   ELSE /\ store' = store \cup {[obj EXCEPT !.key = nextId[s]]}
                        /\ nextId' = [nextId EXCEPT ![s] = @ + 1]
              ELSE IF keep
                   THEN UNCHANGED <<store, nextId>>
                   ELSE /\ store' = StorePut(store, RemoteWins(match, obj))
                        /\ UNCHANGED nextId
           /\ cyc' = [cyc EXCEPT ![c] =
                        IF cy.ridx < Len(cy.rows)
                        THEN [cy EXCEPT !.pc = "find", !.ridx = @ + 1]
                        ELSE EndPull(cy, count)]
    /\ UNCHANGED <<queue, nextQid, mut, now, online, scriptUrl, remote, getVars, ret, nOps, nSyncs, stats>>

\* A storage request of the merge fails (the lookup of the match, or the add
\* or put of the row): _pullFromSheets rejects, syncNow swallows it, and the
\* rows this pull has merged so far are not counted.
MergeFails(c) ==
    /\ cyc[c].pc \in {"find", "merge"}
    /\ cyc' = [cyc EXCEPT ![c] =
                 EndPull([@ EXCEPT !.merged = 0, !.obj = NoRec, !.match = NoRec], 0)]
    /\ UNCHANGED <<store, queue, nextId, nextQid, mut, now, online, scriptUrl, remote, getVars, ret,
                   nOps, nSyncs, stats>>

-----------------------------------------------------------------------------
(* Public Store API: get *)

\* The order of date strings ('YYYY-MM-DD' compares as a string)
DateRank(d) == CASE d = "" -> 0 [] d = "d1" -> 1 [] d = "d2" -> 2

\* getAll of an index on date / of the store: records in (date, key) order,
\* or in key order
RECURSIVE InOrder(_, _)
InOrder(S, byDate) ==
    IF S = {} THEN <<>>
    ELSE LET m == CHOOSE r \in S : \A x \in S :
                      IF byDate /\ r.date # x.date
                      THEN DateRank(r.date) < DateRank(x.date)
                      ELSE r.key <= x.key
         IN  <<m>> \o InOrder(S \ {m}, byDate)

\* results.filter(r => !r._deleted)
RECURSIVE NotDeleted(_)
NotDeleted(q) ==
    IF q = <<>> THEN <<>>
    ELSE IF Head(q).deleted THEN NotDeleted(Tail(q))
         ELSE <<Head(q)>> \o NotDeleted(Tail(q))

\* results.slice(0, options.limit) when options.limit > 0
Slice(q, limit) ==
    IF limit > 0 /\ Len(q) > limit THEN SubSeq(q, 1, limit) ELSE q

\* options.date || options.from || null, options.date || options.to || null
RangeFrom(options) == IF options.date # "" THEN options.date ELSE options.from
RangeTo(options)   == IF options.date # "" THEN options.date ELSE options.to

\* call, snapshot and resolved are history fields: the number of the call,
\* the table as the read transaction saw it, and the mutation calls that had
\* returned by then
IdleGet ==
    [pc |-> "idle", sheet |-> "", from |-> "", to |-> "", limit |-> 0,
     results |-> <<>>, call |-> 0, snapshot |-> {}, resolved |-> {}]

\* What a get call returned: its arguments, the records, or that it threw,
\* and whether it started a background pull
NoGet ==
    [sheet |-> "", from |-> "", to |-> "", limit |-> 0, results |-> <<>>,
     threw |-> FALSE, pulled |-> FALSE, call |-> 0, snapshot |-> {},
     resolved |-> {}]

\* The mutation call a slot is executing (0: none)
CallOf(t) ==
    IF mut[t].pc = "idle" THEN 0
    ELSE IF mut[t].op # 0 THEN mut[t].op ELSE mut[t].rec.op

\* The mutation calls that have returned
Resolved == {op \in 1..nOps : \A t \in MutSlots : CallOf(t) # op}

FreeGet(g) ==
    gets[g].pc = "idle" /\ \A h \in GetSlots : gets[h].pc = "idle" => g <= h

\* get, up to the result of the read transaction. IDBKeyRange.bound(from, to)
\* throws a DataError when from is greater than to: the call rejects.
GetRead(g, s, options, maxGets) ==
    /\ FreeGet(g) /\ nGets < maxGets
    /\ LET from == RangeFrom(options)
           to   == RangeTo(options)
           recs == {r \in store : r.sheet = s}
       IN  IF from # "" /\ to # "" /\ s \in Range(DATE_INDEXED_STORES)
           THEN IF DateRank(from) > DateRank(to)
                THEN /\ got' = [NoGet EXCEPT !.sheet = s, !.from = from, !.to = to,
                                             !.limit = options.limit, !.threw = TRUE,
                                             !.call = nGets + 1,
                                             !.snapshot = recs, !.resolved = Resolved]
                     /\ UNCHANGED gets
                ELSE /\ gets' = [gets EXCEPT ![g] =
                            [pc |-> "return", sheet |-> s, from |-> from, to |-> to,
                             limit |-> options.limit,
                             results |-> InOrder({r \in recs :
                                 /\ DateRank(from) <= DateRank(r.date)
                                 /\ DateRank(r.date) <= DateRank(to)}, TRUE),
                             call |-> nGets + 1, snapshot |-> recs, resolved |-> Resolved]]
                     /\ UNCHANGED got
           ELSE /\ gets' = [gets EXCEPT ![g] =
                       [pc |-> "return", sheet |-> s, from |-> from, to |-> to,
                        limit |-> options.limit, results |-> InOrder(recs, FALSE),
                        call |-> nGets + 1, snapshot |-> recs, resolved |-> Resolved]]
                /\ UNCHANGED got
    /\ nGets' = nGets + 1
    /\ UNCHANGED <<store, queue, nextId, nextQid, mut, cyc, now, online, scriptUrl, remote,
                   nOps, nSyncs, stats, lastPull, pulls, ret>>

\* `${sheet}|${from || ''}|${to || ''}`
PullKey(s, from, to) == <<s, from, to>>

IsStaleAtThreshold(k) ==
    k \notin DOMAIN lastPull \/ now - lastPull[k] >= STALE_THRESHOLD_MS

\* Date.now() - (_lastPullTimestamps[pullKey] || 0) > STALE_THRESHOLD_MS, with
\* Date.now() far more than the threshold after the epoch
IsStale(k) == k \notin DOMAIN lastPull \/ now - lastPull[k] > STALE_THRESHOLD_MS

\* get, after the read: filter, limit, the staleness gate (a stale range
\* starts a background pull and is stamped), return
GetReturn(g) ==
    /\ gets[g].pc = "return"
    /\ LET call  == gets[g]
           k     == PullKey(call.sheet, call.from, call.to)
           fires == online /\ scriptUrl /\ IsStale(k)
       IN  /\ fires => \E c \in Cycles : cyc[c].pc = "idle"
           /\ got' = [sheet |-> call.sheet, from |-> call.from, to |-> call.to,
                      limit |-> call.limit,
                      results |-> Slice(NotDeleted(call.results), call.limit),
                      threw |-> FALSE, pulled |-> fires, call |-> call.call,
                      snapshot |-> call.snapshot, resolved |-> call.resolved]
           /\ IF fires
              THEN /\ cyc' = [cyc EXCEPT ![FreeCycle] = StartFetch(IdleCycle, <<call.sheet>>)]
                   /\ lastPull' = (k :> now) @@ lastPull
                   /\ pulls' = Append(pulls, [key |-> k, at |-> now])
              ELSE UNCHANGED <<cyc, lastPull, pulls>>
    /\ gets' = [gets EXCEPT ![g] = IdleGet]
    /\ UNCHANGED <<store, queue, nextId, nextQid, mut, now, online, scriptUrl, remote,
                   nOps, nSyncs, stats, nGets, ret>>

\* clearLocal: the database is deleted and recreated empty, and true is
\* returned. It is taken with no mutation, get or cycle in flight (the page
\* reloads right after it). The new sync_queue restarts its key generator;
\* the model keeps counting, which renames the later entries without changing
\* their order and keeps the history in stats per entry.
ClearLocal ==
    /\ \A t \in MutSlots : mut[t].pc = "idle"
    /\ \A c \in Cycles : cyc[c].pc = "idle"
    /\ \A g \in GetSlots : gets[g].pc = "idle"
    /\ store' = {}
    /\ queue' = {}
    /\ nextId' = [s \in KeyedStores |-> 1]
    /\ ret' = [NoReturn EXCEPT !.call = "clearLocal", !.value = "true"]
    /\ UNCHANGED <<nextQid, mut, cyc, now, online, scriptUrl, remote, nOps, nSyncs, stats, getVars>>

\* navigator.onLine changes
Connectivity(b) ==
    /\ online # b
    /\ online' = b
    /\ UNCHANGED <<store, queue, nextId, nextQid, mut, cyc, now, scriptUrl, remote,
                   nOps, nSyncs, stats, getVars, ret>>

\* setScriptUrl(url): the URL in memory becomes url, which may be empty
SetScriptUrl(url) ==
    /\ scriptUrl # url
    /\ scriptUrl' = url
    /\ UNCHANGED <<store, queue, nextId, nextQid, mut, cyc, now, online,
                   nOps, nSyncs, stats, getVars, ret, remote>>

\* Time passes, up to maxNow
Elapse(maxNow) ==
    /\ now < maxNow
    /\ now' = now + 1
    /\ UNCHANGED <<store, queue, nextId, nextQid, mut, cyc, online, scriptUrl, remote,
                   nOps, nSyncs, stats, getVars, ret>>

-----------------------------------------------------------------------------
(* Environment *)

\* Time passes
Tick ==
    /\ now + 1 \in Clock
    /\ now' = now + 1
    /\ UNCHANGED <<store, queue, nextId, nextQid, mut, cyc, online, scriptUrl, remote, getVars, ret,
                   nOps, nSyncs, stats>>

\* Date.now() is the wall clock: it can be set back
ClockBack ==
    /\ now > 0
    /\ now' = now - 1
    /\ UNCHANGED <<store, queue, nextId, nextQid, mut, cyc, online, scriptUrl, remote, getVars, ret,
                   nOps, nSyncs, stats>>

-----------------------------------------------------------------------------
(* Specification: the data layer online, with every gateway answer possible *)

\* The database is durable: a session starts from what earlier sessions left.
\* Three such contents are used as initial states.
\*  - EmptyImage: a fresh database.
\*  - PulledImage: one health record that came from the second row of a pull
\*    and was overwritten by the second row of a later pull.
\*  - PendingImage: one health record saved locally whose append entry is
\*    still queued after two failed pushes.
EmptyImage ==
    [store |-> {}, queue |-> {}, nextId |-> [s \in KeyedStores |-> 1], nextQid |-> 1,
     nOps |-> 0, stats |-> <<>>]

PulledRec ==
    [sheet |-> "health", key |-> 1, date |-> "d1", val |-> "r", synced |-> TRUE,
     modified |-> 0, deleted |-> FALSE, rowIndex |-> 1, sheetRowIndex |-> 1, op |-> 0]

PulledImage ==
    [EmptyImage EXCEPT !.store = {PulledRec}, !.nextId = [@ EXCEPT !["health"] = 2]]

PendingRec ==
    [sheet |-> "health", key |-> 1, date |-> "d1", val |-> "a", synced |-> FALSE,
     modified |-> 0, deleted |-> FALSE, rowIndex |-> Null, sheetRowIndex |-> Null,
     op |-> 1]

PendingImage ==
    [store |-> {PendingRec},
     queue |-> {[id |-> 1, sheet |-> "health", action |-> "append", data |-> PendingRec,
                 rowIndex |-> Null, retries |-> 2]},
     nextId |-> [s \in KeyedStores |-> IF s = "health" THEN 2 ELSE 1],
     nextQid |-> 2,
     nOps |-> 1,
     stats |-> <<[op |-> 1, sent |-> 2, failed |-> 2, acc |-> 0, action |-> "append",
                  sheet |-> "health", key |-> 1]>>]

\* ExhaustedImage: the pending image after a third failed push
ExhaustedImage ==
    [PendingImage EXCEPT
        !.queue = {[e EXCEPT !.retries = MAX_RETRIES] : e \in @},
        !.stats = <<[@[1] EXCEPT !.sent = 3, !.failed = 3]>>]

Images == {EmptyImage, PulledImage, PendingImage}

InitFrom(images) ==
    /\ \E im \in images :
           /\ store = im.store
           /\ queue = im.queue
           /\ nextId = im.nextId
           /\ nextQid = im.nextQid
           /\ nOps = im.nOps
           /\ stats = im.stats
    /\ mut = [t \in MutSlots |-> IdleMut]
    /\ cyc = [c \in Cycles |-> IdleCycle]
    /\ now = 0
    /\ online = TRUE
    /\ scriptUrl = TRUE
    /\ remote = {}
    /\ nSyncs = 0
    /\ gets = [g \in GetSlots |-> IdleGet]
    /\ lastPull = <<>>
    /\ got = NoGet
    /\ pulls = <<>>
    /\ nGets = 0
    /\ ret = NoReturn

Init == InitFrom(Images)

Mutate(stores, profileKeys, maxOps, maxSyncs) ==
    \E t \in MutSlots :
        \/ \E s \in stores, v \in SaveVals :
               \E d \in (IF s \in Range(DATE_INDEXED_STORES) THEN Dates ELSE {""}) :
                   SaveWrite(t, s, d, v, maxOps)
        \/ SaveEnqueue(t, maxSyncs)
        \/ \E s \in stores, k \in Keys, v \in UpdateVals : UpdateRead(t, s, k, v, maxOps)
        \/ UpdateWrite(t)
        \/ UpdateEnqueue(t, maxSyncs)
        \/ \E s \in stores, k \in Keys : DeleteRead(t, s, k, maxOps)
        \/ DeleteWrite(t)
        \/ DeleteEnqueue(t, maxSyncs)
        \/ \E k \in profileKeys, v \in SaveVals : SaveProfileWrite(t, k, v, maxOps)
        \/ SaveProfileEnqueue(t, maxSyncs)

Push ==
    \E c \in Cycles :
        \/ Discard(c)
        \/ PushAccepted(c)
        \/ RemoveSynced(c)
        \/ Purge(c)
        \/ PushRejected(c)
        \/ PushFailed(c)

Pull(maxRows) ==
    \E c \in Cycles :
        \/ FetchNothing(c)
        \/ FetchRows(c, maxRows)
        \/ PullFind(c)
        \/ PullMerge(c)

Next ==
    \/ Mutate(IdStores, ProfileKeys, MaxOps, MaxSyncs)
    \/ TimerSync(MaxSyncs)
    \/ Push
    \/ Pull(MaxRows)

Spec == Init /\ [][Next]_vars

-----------------------------------------------------------------------------
(* Specification: the push drain alone, every read answering no rows *)

PullNothing == \E c \in Cycles : FetchNothing(c)

\* The drain treats every sheet alike: one id-keyed store and the profile
DrainStores == {"health"}

NextDrain ==
    \/ \E t \in MutSlots :
           \/ \E s \in DrainStores, d \in Dates, v \in SaveVals :
                  SaveWrite(t, s, d, v, DrainOps)
           \/ SaveEnqueue(t, DrainSyncs)
           \/ \E s \in DrainStores, k \in Keys : DeleteRead(t, s, k, DrainOps)
           \/ DeleteWrite(t)
           \/ DeleteEnqueue(t, DrainSyncs)
           \/ \E k \in ProfileKeys, v \in SaveVals :
                  SaveProfileWrite(t, k, v, DrainOps)
           \/ SaveProfileEnqueue(t, DrainSyncs)
    \/ TimerSync(DrainSyncs)
    \/ Push
    \/ PullNothing

SpecDrain == Init /\ [][NextDrain]_vars

-----------------------------------------------------------------------------
(* Specification: save and delete against a gateway that answers as its
   handlers do (part_001: handleAppend always accepts, handleUpdate and
   handleDelete answer success: false without a row index), no transport
   failure, every read answering no rows; the scheduler is fair *)

\* handleUpdate / handleDelete: if (!rowIndex) return {success: false, ...}
HandlerRejects(c) ==
    /\ cyc[c].pc = "push"
    /\ ~HandlerAccepts(Item(c))
    /\ PushRejected(c)

NextAccept ==
    \/ \E t \in MutSlots :
           \/ \E d \in Dates, v \in SaveVals : SaveWrite(t, "health", d, v, AcceptOps)
           \/ SaveEnqueue(t, AcceptSyncs)
           \/ \E k \in Keys : DeleteRead(t, "health", k, AcceptOps)
           \/ DeleteWrite(t)
           \/ DeleteEnqueue(t, AcceptSyncs)
    \/ TimerSync(AcceptSyncs)
    \/ \E c \in Cycles :
           \/ Discard(c)
           \/ PushAccepted(c)
           \/ RemoveSynced(c)
           \/ Purge(c)
           \/ HandlerRejects(c)
    \/ PullNothing

SpecAccept == Init /\ [][NextAccept]_vars /\ WF_vars(NextAccept)

-----------------------------------------------------------------------------
(* Specification: the pull-merge against locally saved records, with the
   wall clock that stamps records and pulled rows moving in both directions *)

InitMerge == InitFrom({EmptyImage, PulledImage})

NextMerge ==
    \/ \E t \in MutSlots :
           \/ \E d \in Dates, v \in SaveVals : SaveWrite(t, "health", d, v, MergeOps)
           \/ SaveEnqueue(t, MergeSyncs)
    \/ TimerSync(MergeSyncs)
    \/ \E c \in Cycles :
           \/ PushAccepted(c)
           \/ RemoveSynced(c)
           \/ PushFailed(c)
    \/ Pull(MergeRows)
    \/ Tick
    \/ ClockBack

SpecMerge == InitMerge /\ [][NextMerge]_vars

-----------------------------------------------------------------------------
(* Specification: reads of the health table among saves, deletes and sync
   cycles *)

InitGet == InitFrom({EmptyImage, PulledImage})

NextGet ==
    \/ \E t \in MutSlots :
           \/ \E d \in Dates, v \in SaveVals : SaveWrite(t, "health", d, v, GetOps)
           \/ SaveEnqueue(t, GetSyncs)
           \/ \E k \in Keys : DeleteRead(t, "health", k, GetOps)
           \/ DeleteWrite(t)
           \/ DeleteEnqueue(t, GetSyncs)
    \/ TimerSync(GetSyncs)
    \/ \E c \in Cycles :
           \/ PushAccepted(c)
           \/ RemoveSynced(c)
           \/ Purge(c)
           \/ PushFailed(c)
    \/ Pull(GetRows)
    \/ \E g \in GetSlots :
           \/ \E options \in GetOptions : GetRead(g, "health", options, MaxGets)
           \/ GetReturn(g)

SpecGet == InitGet /\ [][NextGet]_vars

-----------------------------------------------------------------------------
(* Specification: get calls, the background pulls they start, and time *)

NextStale ==
    \/ \E g \in GetSlots :
           \/ \E options \in GetOptions : GetRead(g, "health", options, StaleGets)
           \/ GetReturn(g)
    \/ PullNothing
    \/ Elapse(StaleClock)

SpecStale == InitGet /\ [][NextStale]_vars

-----------------------------------------------------------------------------
(* Claims *)

\* The queue entries created so far by mutation call op
EntriesOf(op) == {q \in DOMAIN stats : stats[q].op = op}

\* C1: the record write of a mutation and the enqueue of its one queue entry
\* are a unit: no task ever looks up a locally written record whose queue
\* entry does not exist yet, every locally written record of a call that has
\* returned has exactly one entry, and no call creates two entries.
C1_WriteAndEnqueueAreAUnit ==
    /\ \A c \in Cycles :
           cyc[c].match.op # 0 => Cardinality(EntriesOf(cyc[c].match.op)) = 1
    /\ \A r \in store :
           (r.op # 0 /\ \A t \in MutSlots : mut[t].rec.op # r.op)
               => Cardinality(EntriesOf(r.op)) = 1
    /\ \A op \in 1..nOps : Cardinality(EntriesOf(op)) <= 1

\* C2: within one cycle the push requests are issued in strictly ascending
\* queue-id order, each one only after the previous one has been answered.
C2_PushesInAscendingIdOrder ==
    \A c \in Cycles :
        /\ \A i, j \in DOMAIN cyc[c].sent : i < j => cyc[c].sent[i] < cyc[c].sent[j]
        /\ Len(cyc[c].sent) <= cyc[c].answered + 1

\* C2 witness: a cycle has transmitted two entries of its snapshot
C2_TwoPushesInOneCycle ==
    \E c \in Cycles : Len(cyc[c].sent) >= 2 /\ cyc[c].answered >= 2

\* C3: a record whose latest local mutation still has its queue entry
\* pending (queued and not yet answered success:true) has _synced = false.
C3_UnsyncedWhilePending ==
    \A r \in store :
        (r.op # 0 /\ \E e \in queue : stats[e.id].op = r.op /\ stats[e.id].acc = 0)
            => ~r.synced

\* C4: when the push of an entry fails with a transport error, the entry
\* stays queued with its retries one higher than before, every other entry is
\* left as it is, and the cycle issues no further push request.
C4_TransportFailureHalts ==
    [][\A c \in Cycles :
          /\ (cyc[c].pc = "push" /\ cyc'[c].halted) =>
                 /\ \A e \in queue :
                        IF e.id = cyc[c].items[cyc[c].idx].id
                        THEN [e EXCEPT !.retries = @ + 1] \in queue'
                        ELSE e \in queue'
                 /\ cyc'[c].sent = cyc[c].sent
          /\ (cyc[c].halted /\ cyc'[c].pc # "idle") => cyc'[c].sent = cyc[c].sent
      ]_vars

\* C5: when the gateway answers {success: false} for an entry, the entry
\* stays queued with its retries one higher than before, the cycle's error
\* count grows by one, and the cycle goes on to the next entry of its snapshot.
C5_RejectionContinues ==
    [][\A c \in Cycles :
          (/\ cyc[c].pc = "push" /\ cyc'[c].answered = cyc[c].answered + 1
           /\ cyc'[c].pc # "remove" /\ ~cyc'[c].halted) =>
              /\ \A e \in queue :
                     e.id = cyc[c].items[cyc[c].idx].id
                         => [e EXCEPT !.retries = @ + 1] \in queue'
              /\ cyc'[c].errors = cyc[c].errors + 1
              /\ cyc'[c].idx = cyc[c].idx + 1
              /\ cyc[c].idx < Len(cyc[c].items) => cyc'[c].pc \in {"push", "discard"}
      ]_vars

\* C6: no queue entry is transmitted more than MAX_RETRIES times in total.
C6_AtMostMaxRetriesTransmissions ==
    \A q \in DOMAIN stats : stats[q].sent <= MAX_RETRIES

\* C7: the retries counter of a queued entry equals the number of failed push
\* attempts of that entry: it starts at 0 and grows by one per failure.
C7_RetriesCountFailures ==
    \A e \in queue : e.retries = stats[e.id].failed

\* C8: when the gateway answers {success: true} for an entry of any entity
\* type, the record the entry is about is marked _synced = true, and the
\* entry is then removed from the queue.
C8_AcceptedMarksSynced ==
    [][\A c \in Cycles :
          /\ (cyc[c].pc = "push" /\ cyc'[c].pc = "remove") =>
                 \A r \in store' :
                     (/\ r.sheet = cyc[c].items[cyc[c].idx].sheet
                      /\ r.key = cyc[c].items[cyc[c].idx].data.key) => r.synced
          /\ (cyc[c].pc = "remove" /\ cyc'[c] # cyc[c]) =>
                 \A e \in queue' : e.id # cyc[c].items[cyc[c].idx].id
      ]_vars

\* C9: with sync cycles running against an accepting gateway, a record that
\* delete() has tombstoned is eventually purged, whether or not it ever
\* received a row index. (The run is bounded: a run that ends with the delete
\* entry still queued because no further cycle may start is not counted.)
C9_TombstoneEventuallyPurged ==
    \A k \in Keys :
        (\E r \in store : /\ r.sheet = "health" /\ r.key = k /\ r.deleted
                          /\ EntriesOf(r.op) # {})
            ~> \/ StoreGet(store, "health", k) = NoRec
               \/ /\ nSyncs = AcceptSyncs
                  /\ \E e \in queue : /\ e.sheet = "health" /\ e.data.key = k
                                       /\ e.action = "delete"

\* C10: in the merge of a pulled row whose matching local record is unsynced
\* and has a _modified newer than the row's stamp, the table is left as it
\* is and the row is not counted as merged.
C10_NewerUnsyncedLocalWins ==
    [][\A c \in Cycles :
          (/\ cyc[c].pc = "merge" /\ cyc'[c] # cyc[c]
           /\ cyc[c].match # NoRec
           /\ ~cyc[c].match.synced
           /\ cyc[c].match.modified > cyc[c].obj.modified) =>
              /\ store' = store
              /\ cyc'[c].pc = "find" => cyc'[c].merged = cyc[c].merged
      ]_vars

\* C10 witness: the first of two pulled rows has been merged without being
\* counted, and the local record it matched still holds the local edit
C10_LocalEditKept ==
    \E c \in Cycles :
        /\ cyc[c].pc = "find" /\ cyc[c].ridx = 2 /\ cyc[c].merged = 0
        /\ \E r \in store : /\ r.sheet = "health" /\ r.date = cyc[c].rows[1].date
                             /\ ~r.synced /\ r.op # 0
                             /\ r.val # cyc[c].rows[1].val

C12_UnmatchedRowInsertedOnce ==
    [][\A c \in Cycles :
          (cyc[c].pc = "merge" /\ cyc'[c] # cyc[c] /\ cyc[c].match = NoRec) =>
              /\ store \subseteq store'
              /\ Cardinality(store' \ store) = 1
              /\ \A r \in store' \ store :
                     /\ r.synced /\ ~r.deleted
                     /\ r.date = cyc[c].obj.date /\ r.val = cyc[c].obj.val
              /\ queue' = queue /\ nextQid' = nextQid
      ]_vars

\* C12 witness: the table holds a record that a pull inserted (it has the
\* row's position but no _rowIndex, and no mutation call wrote it)
C12_PulledRowInserted ==
    \E r \in store : /\ r.op = 0 /\ r.rowIndex = Null /\ r.sheetRowIndex # Null
                     /\ r.synced /\ ~r.deleted

\* C13: a get by date that reads after a save of that date has returned
\* returns a record of that save with the saved values and _synced = false,
\* whatever the sync cycle the save triggered has done meanwhile.
C13_ReadAfterSave ==
    (got.sheet = "health" /\ ~got.threw /\ got.from # "" /\ got.from = got.to
        /\ got.limit = 0) =>
        \A op \in got.resolved :
            (\E r \in got.snapshot : r.op = op /\ r.date = got.from /\ ~r.deleted) =>
                \E i \in DOMAIN got.results :
                    /\ got.results[i].op = op
                    /\ got.results[i].val \in SaveVals
                    /\ ~got.results[i].synced

\* C14: a get call returns (it does not throw) only records of the table that
\* are not tombstoned; with both range bounds given it returns exactly the
\* non-tombstoned records with from <= date <= to, cut to the limit when a
\* limit is given.
C14_GetReturnsRange ==
    got.sheet = "health" =>
        LET live    == {r \in got.snapshot : ~r.deleted}
            inRange == {r \in live : /\ DateRank(got.from) <= DateRank(r.date)
                                     /\ DateRank(r.date) <= DateRank(got.to)}
            res     == {got.results[i] : i \in DOMAIN got.results}
        IN  /\ ~got.threw
            /\ res \subseteq live
            /\ Cardinality(res) = Len(got.results)
            /\ (got.from # "" /\ got.to # "") =>
                   /\ res \subseteq inRange
                   /\ Len(got.results) =
                          IF got.limit > 0 /\ Cardinality(inRange) > got.limit
                          THEN got.limit ELSE Cardinality(inRange)

\* C15: two background pulls that get starts for the same table and range
\* are more than the staleness threshold apart: get calls for one range made
\* within the threshold start at most one pull, also when they overlap.
C15_OnePullPerRangeAndPeriod ==
    \A i, j \in DOMAIN pulls :
        (i < j /\ pulls[i].key = pulls[j].key)
            => pulls[j].at - pulls[i].at > STALE_THRESHOLD_MS

\* C15 witness: two get calls for one range were in flight at once; the
\* first to return started the pull, the other is about to return within
\* the threshold
C15_TwoGetsOnePull ==
    \E g \in GetSlots :
        /\ gets[g].pc = "return" /\ got.pulled
        /\ PullKey(gets[g].sheet, gets[g].from, gets[g].to)
               = PullKey(got.sheet, got.from, got.to)
        /\ Len(pulls) = 1 /\ now - pulls[1].at <= STALE_THRESHOLD_MS
        /\ gets[g].call < got.call


(***************************************************************************)
(* Calls on unknown keys: saves, updates and deletes of one id-keyed       *)
(* store, with every push accepted and nothing to pull.                    *)
(***************************************************************************)
MissOps == 2
MissSyncs == 2

NextMiss ==
    \/ \E t \in MutSlots :
           \/ \E s \in DrainStores, d \in Dates, v \in SaveVals :
                  SaveWrite(t, s, d, v, MissOps)
           \/ SaveEnqueue(t, MissSyncs)
           \/ \E s \in DrainStores, k \in Keys, v \in UpdateVals :
                  UpdateRead(t, s, k, v, MissOps)
           \/ UpdateWrite(t)
           \/ UpdateEnqueue(t, MissSyncs)
           \/ \E s \in DrainStores, k \in Keys : DeleteRead(t, s, k, MissOps)
           \/ DeleteWrite(t)
           \/ DeleteEnqueue(t, MissSyncs)
    \/ \E c \in Cycles : PushAccepted(c) \/ RemoveSynced(c) \/ Purge(c)
    \/ PullNothing

SpecMiss == InitFrom({EmptyImage, PulledImage}) /\ [][NextMiss]_vars

\* C16: update and delete of a key without a local record return null and
\* false, and that call leaves the Record Store, the Sync Queue and the sync
\* cycles as they were; a call that goes past its read has found the record.
C16_UnknownKeyIsANoOp ==
    [][ /\ (ret' # ret /\ ret'.value \in {"null", "false"}) =>
              /\ StoreGet(store, ret'.sheet, ret'.key) = NoRec
              /\ ret'.value = (IF ret'.call = "update" THEN "null" ELSE "false")
              /\ UNCHANGED <<store, queue, nextId, nextQid, mut, cyc, nSyncs>>
        /\ \A t \in MutSlots :
              (mut[t].pc = "idle" /\ mut'[t].pc \in {"upd_write", "del_write"}) =>
                  /\ mut'[t].rec # NoRec
                  /\ StoreGet(store, mut'[t].rec.sheet, mut'[t].rec.key) # NoRec ]_vars

\* C16 witness: a delete of an unknown key has returned false while an
\* earlier record of the store is still there
C16_DeleteOfUnknownKeyReturned ==
    /\ ret.call = "delete" /\ ret.value = "false"
    /\ StoreGet(store, ret.sheet, ret.key) = NoRec
    /\ \E k \in Keys : StoreGet(store, ret.sheet, k) # NoRec


(***************************************************************************)
(* Offline and unconfigured clients: connectivity and the script URL       *)
(* change while records are saved and deleted and syncNow is called.       *)
(***************************************************************************)
OfflineOps == 1
OfflineSyncs == 2

NextOffline ==
    \/ \E t \in MutSlots :
           \/ \E s \in DrainStores, d \in Dates, v \in SaveVals :
                  SaveWrite(t, s, d, v, OfflineOps)
           \/ SaveEnqueue(t, OfflineSyncs)
           \/ \E s \in DrainStores, k \in Keys : DeleteRead(t, s, k, OfflineOps)
           \/ DeleteWrite(t)
           \/ DeleteEnqueue(t, OfflineSyncs)
    \/ SyncNowCall(OfflineSyncs)
    \/ \E b \in BOOLEAN : Connectivity(b)
    \/ \E url \in BOOLEAN : SetScriptUrl(url)
    \/ \E c \in Cycles : PushAccepted(c) \/ RemoveSynced(c) \/ Purge(c) \/ PushFailed(c)
    \/ PullNothing

SpecOffline == InitFrom({PulledImage, PendingImage}) /\ [][NextOffline]_vars

\* C17: a syncNow call made offline or without a script URL returns the
\* zero result and changes nothing: no cycle starts, so no request is issued
\* and no result is dispatched, and the tables and the queue (retries
\* included) stay as they are. Cycles start only online and configured.
C17_SyncNowOfflineIsANoOp ==
    [][ /\ (ret' # ret /\ ret'.call = "syncNow") =>
              /\ ~(online /\ scriptUrl)
              /\ ret'.value = "zeros"
              /\ UNCHANGED <<store, queue, nextId, nextQid, mut, cyc, nSyncs, stats>>
        /\ nSyncs' # nSyncs => (online /\ scriptUrl)
        /\ \A c \in Cycles :
              Len(cyc'[c].sent) > Len(cyc[c].sent) =>
                  (cyc[c].pc # "idle" \/ (online /\ scriptUrl)) ]_vars

\* C17 witness: syncNow has returned zeros while entries wait in the queue
\* untransmitted and no cycle runs
C17_SyncNowReturnedZeros ==
    /\ ret.call = "syncNow" /\ ret.value = "zeros"
    /\ ~(online /\ scriptUrl)
    /\ queue # {}
    /\ \A c \in Cycles : cyc[c].pc = "idle"


(***************************************************************************)
(* Mutations under every gateway outcome: saves, updates and deletes of    *)
(* one id-keyed store while pushes are accepted, rejected, fail in         *)
(* transport or are discarded, and pulls fail.                             *)
(***************************************************************************)
FailOps == 1
FailSyncs == 2

NextFail ==
    \/ Mutate(DrainStores, ProfileKeys, FailOps, FailSyncs)
    \/ TimerSync(FailSyncs)
    \/ Push
    \/ PullNothing

SpecFail == InitFrom({PulledImage, PendingImage}) /\ [][NextFail]_vars

\* C18: a save, update or delete in progress is left only by its own steps
\* and ends by returning the record (true for delete) with its queue entry
\* added; a rejected push, a failed push, a discard and a failed pull leave
\* every table as it is, and of these only the discard of an entry read with
\* MAX_RETRIES retries takes an entry out of the queue.
C18_MutationsSucceedLocally ==
    [][ /\ \A t \in MutSlots :
              /\ mut[t].pc \in {"save_enq", "upd_enq", "del_enq"} =>
                    \/ mut'[t] = mut[t]
                    \/ /\ mut'[t].pc = "idle"
                       /\ ret'.key = mut[t].rec.key /\ ret'.sheet = mut[t].sheet
                       /\ ret'.value = (IF mut[t].pc = "del_enq" THEN "true" ELSE "record")
                       /\ store' = store
                       /\ \E e \in queue' \ queue :
                              /\ e.data = mut[t].rec
                              /\ queue' = queue \cup {e}
              /\ mut[t].pc = "upd_write" => mut'[t].pc \in {"upd_write", "upd_enq"}
              /\ mut[t].pc = "del_write" => mut'[t].pc \in {"del_write", "del_enq"}
        /\ \A c \in Cycles :
              /\ (cyc[c].pc = "push" /\ stats'[Item(c).id].failed > stats[Item(c).id].failed) =>
                    /\ store' = store
                    /\ {[e EXCEPT !.retries = 0] : e \in queue'}
                           = {[e EXCEPT !.retries = 0] : e \in queue}
              /\ (cyc[c].pc = "discard" /\ cyc'[c] # cyc[c]) =>
                    /\ store' = store
                    /\ Item(c).retries >= MAX_RETRIES
                    /\ queue' = {e \in queue : e.id # Item(c).id}
              /\ (cyc[c].pc = "fetch" /\ cyc'[c].pc # "find" /\ cyc'[c] # cyc[c]) =>
                    /\ store' = store /\ queue' = queue ]_vars

\* C18 witness: save has returned its record, the push of its entry has
\* failed since, and the record and the entry are still there
C18_SavedThoughPushFailed ==
    /\ ret.call = "save" /\ ret.value = "record"
    /\ \E r \in store : r.sheet = ret.sheet /\ r.key = ret.key /\ ~r.synced /\ r.op # 0
    /\ \E e \in queue :
           /\ e.action = "append" /\ e.sheet = ret.sheet /\ e.data.key = ret.key
           /\ e.retries >= 1 /\ stats[e.id].failed >= 1


(***************************************************************************)
(* The life of a record: mutations, every push outcome, pull-merges and    *)
(* wipes of the local store.                                               *)
(***************************************************************************)
WipeOps == 1
WipeSyncs == 1
WipeRows == 1

NextWipe ==
    \/ \E t \in MutSlots :
           \/ \E s \in DrainStores, d \in Dates, v \in SaveVals :
                  SaveWrite(t, s, d, v, WipeOps)
           \/ SaveEnqueue(t, WipeSyncs)
           \/ \E s \in DrainStores, k \in Keys, v \in UpdateVals :
                  UpdateRead(t, s, k, v, WipeOps)
           \/ UpdateWrite(t)
           \/ UpdateEnqueue(t, WipeSyncs)
           \/ \E s \in DrainStores, k \in Keys : DeleteRead(t, s, k, WipeOps)
           \/ DeleteWrite(t)
           \/ DeleteEnqueue(t, WipeSyncs)
    \/ TimerSync(WipeSyncs)
    \/ Push
    \/ Pull(WipeRows)
    \/ ClearLocal

SpecWipe == InitFrom({PulledImage, ExhaustedImage}) /\ [][NextWipe]_vars

DeliverOps == 2
DeliverSyncs == 2

\* What the scheduler owes: a call that has written enqueues, the timer
\* fires, every request is answered, every cycle goes on
DeliverSteps ==
    \/ \E t \in MutSlots : SaveEnqueue(t, DeliverSyncs)
    \/ TimerSync(DeliverSyncs)
    \/ \E c \in Cycles :
           \/ Discard(c)
           \/ PushAccepted(c)
           \/ RemoveSynced(c)
           \/ PushRejected(c)
           \/ PushFailed(c)
    \/ PullNothing

\* What the user may do or not: save a record, wipe the local store
NextDeliver ==
    \/ \E t \in MutSlots, d \in Dates, v \in SaveVals :
           SaveWrite(t, "health", d, v, DeliverOps)
    \/ DeliverSteps
    \/ ClearLocal

SpecDeliver ==
    InitFrom({EmptyImage, PendingImage}) /\ [][NextDeliver]_vars /\ WF_vars(DeliverSteps)

\* The gateway has answered success: true for entry q, or q has failed
\* MAX_RETRIES times
Settled(q) ==
    q \in DOMAIN stats /\ (stats[q].acc >= 1 \/ stats[q].failed >= MAX_RETRIES)

\* Entry q is in the queue
Queued(q) == \E e \in queue : e.id = q

\* No further cycle may start in this run and none is running
OutOfCycles == nSyncs = DeliverSyncs /\ \A c \in Cycles : cyc[c].pc = "idle"

ResultOps == 1
ResultSyncs == 2
ResultRows == 2

NextResult ==
    \/ \E t \in MutSlots :
           \/ \E d \in Dates, v \in SaveVals : SaveWrite(t, "health", d, v, ResultOps)
           \/ SaveEnqueue(t, ResultSyncs)
           \/ \E k \in Keys : DeleteRead(t, "health", k, ResultOps)
           \/ DeleteWrite(t)
           \/ DeleteEnqueue(t, ResultSyncs)
    \/ SyncNowCall(ResultSyncs)
    \/ Push
    \/ Pull(ResultRows)
    \/ \E c \in Cycles : MergeFails(c)

SpecResult == InitFrom({PulledImage, PendingImage}) /\ [][NextResult]_vars

\* The result an awaited syncNow call has returned is held in slot c
Returned(c) == cyc[c].pc = "idle" /\ cyc[c].caller = "client"

\* C21: in the result of a cycle, pushed is the number of entries the gateway
\* accepted in it, errors is the number of entries it discarded plus the
\* number of its failed pushes, pulled is the number of rows its pull phase
\* inserted or overwrote, and pushed + errors is at most the number of
\* entries it read from the queue.
C21_ResultCountsTheCycle ==
    \A c \in Cycles :
        Returned(c) =>
            /\ cyc[c].pushed = cyc[c].accepted
            /\ cyc[c].errors = cyc[c].discarded + (cyc[c].answered - cyc[c].accepted)
            /\ cyc[c].pulled = cyc[c].written
            /\ cyc[c].pushed + cyc[c].errors <= Len(cyc[c].items)


-----------------------------------------------------------------------------
(***************************************************************************)
(* Specification: the two phases of a cycle. Saves and deletes, awaited    *)
(* and background cycles with every push outcome (accepted, rejected,      *)
(* discarded, transport failure), every read answering no rows. The URL    *)
(* stays configured and the device online.                                 *)
(***************************************************************************)
PhaseOps == 2
PhaseSyncs == 2

NextPhase ==
    \/ \E t \in MutSlots :
           \/ \E d \in Dates, v \in SaveVals : SaveWrite(t, "health", d, v, PhaseOps)
           \/ SaveEnqueue(t, PhaseSyncs)
           \/ \E k \in Keys : DeleteRead(t, "health", k, PhaseOps)
           \/ DeleteWrite(t)
           \/ DeleteEnqueue(t, PhaseSyncs)
    \/ SyncNowCall(PhaseSyncs)
    \/ Push
    \/ PullNothing

SpecPhase == InitFrom({PulledImage, ExhaustedImage}) /\ [][NextPhase]_vars

\* The step ends the cycle in slot c
Ends(c) == cyc[c].pc # "idle" /\ cyc'[c].pc = "idle"

\* The step issues a read request of the cycle in slot c
Fetches(c) == cyc'[c].pc # "idle" /\ cyc'[c].fetches > cyc[c].fetches

\* The push loop of cycle cy is over: past the last entry, or left by break
PushOver(cy) == cy.halted \/ cy.idx > Len(cy.items)

\* C22: the pull phase runs after the push phase whatever its outcome. A
\* cycle issues a read only when its push loop is over, transmits no entry
\* once it has issued a read, and ends only after it has issued one read for
\* each of the date-indexed stores it pulls.
C22_PullFollowsPush ==
    [][\A c \in Cycles :
           /\ Fetches(c) => PushOver(cyc'[c])
           /\ (cyc[c].fetches > 0 /\ ~Ends(c) /\ cyc[c].pc # "idle")
                  => cyc'[c].sent = cyc[c].sent
           /\ Ends(c) => /\ cyc[c].fetches = Len(cyc[c].pullStores)
                         /\ cyc[c].pullStores = PullStores(cyc[c].caller)
                         /\ Len(cyc[c].pullStores) >= Len(DATE_INDEXED_STORES)]_vars

\* C22 witness: an awaited cycle has returned that discarded an exhausted
\* entry, was halted by a transport failure, and then read both stores.
C22_PulledAfterHaltedPush ==
    \E c \in Cycles :
        /\ Returned(c)
        /\ cyc[c].halted
        /\ cyc[c].discarded = 1
        /\ cyc[c].fetches = 2


-----------------------------------------------------------------------------
(***************************************************************************)
(* Specification: failures of the pull phase. Awaited cycles over an empty *)
(* queue or one pending entry; every read can throw or answer rows, and a  *)
(* storage request of the merge can fail.                                  *)
(***************************************************************************)
SwallowSyncs == 1
SwallowRows == 2

NextSwallow ==
    \/ SyncNowCall(SwallowSyncs)
    \/ \E c \in Cycles :
           \/ PushAccepted(c)
           \/ RemoveSynced(c)
           \/ PushRejected(c)
           \/ PushFailed(c)
    \/ Pull(SwallowRows)
    \/ \E c \in Cycles : MergeFails(c)

SpecSwallow == InitFrom({EmptyImage, PendingImage}) /\ [][NextSwallow]_vars

\* The step ends a pull of one store of the cycle in slot c that adds nothing
\* to pulled: the read threw or answered no rows, or the merge threw
PullThrows(c) ==
    \/ cyc[c].pc = "fetch" /\ cyc'[c] = EndPull(cyc[c], 0)
    \/ cyc[c].pc \in {"find", "merge"} /\ cyc'[c].pc \notin {"find", "merge"}
       /\ cyc'[c].pulled = cyc[c].pulled

\* C23: a failure of the pull of one store is swallowed. When a pull throws,
\* the cycle goes on to read the next date-indexed store if one remains, and
\* returns its result otherwise; the errors count of the result is the one
\* the push phase left.
C23_PullFailureIsSwallowed ==
    [][\A c \in Cycles :
           PullThrows(c) =>
               /\ IF Len(cyc[c].psheets) > 1
                  THEN /\ cyc'[c].pc = "fetch"
                       /\ cyc'[c].psheets = Tail(cyc[c].psheets)
                       /\ cyc'[c].fetches = cyc[c].fetches + 1
                  ELSE Returned(c)'
               /\ cyc'[c].errors = cyc[c].errors
               /\ cyc'[c].errors = cyc[c].discarded
                                     + (cyc[c].answered - cyc[c].accepted)]_vars

\* C23 witness: an awaited cycle has returned after a failed push, a merge
\* of health rows that failed after its first row was inserted, and a read
\* of the second store.
C23_ReturnedAfterFailedPull ==
    \E c \in Cycles :
        /\ Returned(c)
        /\ cyc[c].errors = 1
        /\ cyc[c].written = 1
        /\ cyc[c].pulled = 0
        /\ cyc[c].fetches = 2
        /\ \E r \in store : r.sheet = "health" /\ r.synced


-----------------------------------------------------------------------------
(***************************************************************************)
(* Specification: _pushToSheets as a function of the queue entry, applied  *)
(* to entries of every sheet kind, with the three actions the store        *)
(* enqueues and one it does not, and every combination of row indexes.     *)
(***************************************************************************)
MaxRowIndex == 2

RowIndexes == {Null} \cup (1 .. MaxRowIndex)

RequestItems ==
    {[id |-> 1, sheet |-> s, action |-> a, retries |-> 0, rowIndex |-> ri,
      data |-> [PendingRec EXCEPT !.sheet = s, !.rowIndex = dr, !.sheetRowIndex = ds]] :
        s \in Sheets, a \in {"append", "update", "delete", "clear"},
        ri \in RowIndexes, dr \in RowIndexes, ds \in RowIndexes}

PushToSheets(item) ==
    /\ ret' = [call |-> "_pushToSheets", sheet |-> item.sheet, key |-> item,
               value |-> PushRequest(item)]
    /\ UNCHANGED <<store, queue, nextId, nextQid, mut, cyc, now, online, scriptUrl, remote,
                   getVars, nOps, nSyncs, stats>>

NextRequest == \E item \in RequestItems : PushToSheets(item)

SpecRequest == InitFrom({EmptyImage}) /\ [][NextRequest]_vars

\* The first row index among the entry's, the record's _rowIndex and the
\* record's _sheetRowIndex that is set, or none
FirstRowIndex(item) ==
    LET c == <<item.rowIndex, item.data.rowIndex, item.data.sheetRowIndex>>
        set == {i \in 1 .. 3 : c[i] # Null}
    IN  IF set = {} THEN Null ELSE c[CHOOSE i \in set : \A j \in set : i <= j]

\* C24: the request _pushToSheets posts is determined by the entry's action
\* and sheet: append posts append with one encoded row, update of the
\* profile posts write, update of another sheet posts update with a
\* rowIndex, delete posts delete with a rowIndex, and for any other action
\* nothing is posted and false is returned.
C24_RequestFollowsTheEntry ==
    ret.call = "_pushToSheets" =>
        LET item == ret.key
            req == ret.value
        IN  /\ item.action = "append" =>
                   /\ req.posted /\ req.action = "append" /\ req.sheet = item.sheet
                   /\ Len(req.rows) = 1 /\ req.rows[1][2] = item.data.val
            /\ (item.action = "update" /\ item.sheet = "profile") =>
                   /\ req.posted /\ req.action = "write" /\ req.sheet = item.sheet
                   /\ Len(req.rows) = 1
            /\ (item.action = "update" /\ item.sheet # "profile") =>
                   /\ req.posted /\ req.action = "update" /\ req.sheet = item.sheet
                   /\ req.rowIndex = FirstRowIndex(item)
            /\ item.action = "delete" =>
                   /\ req.posted /\ req.action = "delete" /\ req.sheet = item.sheet
                   /\ req.rowIndex = FirstRowIndex(item)
            /\ item.action \notin {"append", "update", "delete"} => ~req.posted

\* C24 witness: an update of the profile has been turned into a write request
C24_ProfileUpdatePostedAsWrite ==
    /\ ret.call = "_pushToSheets"
    /\ ret.key.action = "update" /\ ret.key.sheet = "profile"
    /\ ret.value.action = "write"


-----------------------------------------------------------------------------
\* Entry q has left the queue without having been accepted: the drain
\* discarded it (no specification with this predicate wipes the store)
Discarded(q) ==
    /\ q \in DOMAIN stats
    /\ stats[q].acc = 0
    /\ stats[q].failed >= MAX_RETRIES
    /\ \A e \in queue : e.id # q
    /\ \A c \in Cycles : cyc[c].pc \in {"push", "discard", "remove"} => Item(c).id # q

\* C25: a record whose queue entry was discarded for retry exhaustion, and
\* that has not been mutated locally since, is unsynced in every later state.
C25_DiscardedStaysUnsynced ==
    \A r \in store :
        (r.op # 0 /\ \E q \in EntriesOf(r.op) : Discarded(q)) => ~r.synced


-----------------------------------------------------------------------------
\* The gateway has accepted an append entry of record k of sheet s
AppendAccepted(s, k) ==
    \E q \in DOMAIN stats :
        /\ stats[q].action = "append" /\ stats[q].sheet = s /\ stats[q].key = k
        /\ stats[q].acc >= 1

\* The step is the read of an update or delete call of task t
ReadsForMutation(t) ==
    mut[t].pc = "idle" /\ mut'[t].pc \in {"upd_write", "del_write"}

\* C26: once the append entry of a record has been accepted, a later update
\* or delete of that record reads a record with a row index, so that its
\* entry is queued and transmitted with a rowIndex that is not null.
C26_RowIndexAfterAcceptedAppend ==
    [][\A t \in MutSlots :
           (ReadsForMutation(t) /\ AppendAccepted(mut'[t].sheet, mut'[t].rec.key))
               => BodyRowIndex([rowIndex |-> mut'[t].rec.rowIndex,
                                data |-> mut'[t].rec]) # Null]_vars

-----------------------------------------------------------------------------
\* The step removes the exhausted entry the cycle in slot c has reached
Discards(c) == cyc[c].pc = "discard" /\ cyc'[c] # cyc[c]

\* C27: an entry with retries >= MAX_RETRIES is never transmitted; the drain
\* removes it from the queue alone, adds one to errors, writes no record, and
\* goes on to the next entry of the same cycle, or to the pull phase after
\* the last one.
C27_ExhaustedEntryIsDiscarded ==
    [][\A c \in Cycles :
           /\ cyc'[c].pc = "push" => Item(c)'.retries < MAX_RETRIES
           /\ Discards(c) =>
                  /\ Item(c).retries >= MAX_RETRIES
                  /\ queue' = {e \in queue : e.id # Item(c).id}
                  /\ stats'[Item(c).id] = stats[Item(c).id]
                  /\ Item(c).id \notin Range(cyc'[c].sent)
                  /\ cyc'[c].errors = cyc[c].errors + 1
                  /\ cyc'[c].pushed = cyc[c].pushed
                  /\ store' = store
                  /\ ~cyc'[c].halted
                  /\ cyc'[c].idx = cyc[c].idx + 1
                  /\ IF cyc[c].idx < Len(cyc[c].items)
                     THEN cyc'[c].pc \in {"push", "discard"}
                     ELSE cyc'[c].pc = "fetch"]_vars

\* C27 witness: a cycle has discarded the exhausted entry of a record, which
\* is still unsynced in the store, and is pushing the next entry.
C27_NextEntryPushedAfterDiscard ==
    \E c \in Cycles :
        /\ cyc[c].discarded = 1 /\ cyc[c].errors = 1
        /\ cyc[c].pc = "push" /\ cyc[c].idx = 2
        /\ cyc[c].items[1].id \notin {e.id : e \in queue}
        /\ \E r \in store : r.key = cyc[c].items[1].data.key /\ ~r.synced

-----------------------------------------------------------------------------
\* The step is the gateway's acceptance of entry q
Accepts(q) == q \in DOMAIN stats /\ stats'[q].acc > stats[q].acc

\* C28: the entries of one record are accepted in ascending id order: no
\* entry is accepted while an entry of the same record with a smaller id is
\* still queued.
C28_AcceptedInQueueOrder ==
    [][\A q \in DOMAIN stats :
           Accepts(q) =>
               ~\E e \in queue : /\ e.id < q
                                 /\ e.sheet = stats[q].sheet
                                 /\ e.data.key = stats[q].key]_vars

-----------------------------------------------------------------------------
\* The step is the merge of a pulled row by the cycle in slot c
Merges(c) == cyc[c].pc = "merge" /\ cyc'[c] # cyc[c]

\* The mutation that last wrote record r is still queued
MutationQueued(r) == r.op # 0 /\ \E e \in queue : stats[e.id].op = r.op

\* C29: the merge of a pulled row leaves every unsynced record whose mutation
\* is still queued with the values of that mutation and unsynced.
C29_PullKeepsPendingEdit ==
    [][\A c \in Cycles :
           Merges(c) =>
               \A r \in store :
                   (~r.synced /\ MutationQueued(r)) =>
                       \E r2 \in store' : /\ r2.sheet = r.sheet /\ r2.key = r.key
                                          /\ r2.val = r.val /\ r2.date = r.date
                                          /\ ~r2.synced]_vars

-----------------------------------------------------------------------------
\* C30: whatever cycles overlap, the gateway accepts no queue entry more than
\* once.
C30_AcceptedAtMostOnce ==
    \A q \in DOMAIN stats : stats[q].acc <= 1

-----------------------------------------------------------------------------
\* The delete call that tombstoned record r has returned
DeleteReturned(r) ==
    /\ r.deleted
    /\ \A t \in MutSlots :
           mut[t].pc = "del_enq" => (mut[t].sheet # r.sheet \/ mut[t].rec.key # r.key)

\* C31: once delete has returned, the tombstoned record stays tombstoned,
\* and so excluded from get, in every step that does not purge it, the merge
\* of a pulled row included.
C31_TombstoneStaysHidden ==
    [][\A r \in store :
           DeleteReturned(r) =>
               \A r2 \in store' :
                   (r2.sheet = r.sheet /\ r2.key = r.key) => r2.deleted]_vars

-----------------------------------------------------------------------------
(***************************************************************************)
(* Specification: repeated pulls. Cycles over an empty queue whose reads   *)
(* answer health rows with a date or with an empty date cell.              *)
(***************************************************************************)
AgainSyncs == 2
AgainRows == 1

\* Health rows as a read can return them: the date cell may be empty
AgainRowSet == [key : {Null}, date : Dates \cup {""}, val : RemoteVals]

NextAgain ==
    \/ TimerSync(AgainSyncs)
    \/ \E c \in Cycles :
           \/ FetchNothing(c)
           \/ FetchRowsFrom(c, AgainRowSet, AgainRows)
           \/ PullFind(c)
           \/ PullMerge(c)

SpecAgain == InitFrom({EmptyImage, PulledImage}) /\ [][NextAgain]_vars

\* The store holds a record that a merge of the row obj made: it has the
\* row's schema fields and position and no local mutation wrote it
MergedBefore(obj) ==
    \E r \in store :
        /\ r.sheet = obj.sheet /\ r.date = obj.date /\ r.val = obj.val
        /\ r.sheetRowIndex = obj.sheetRowIndex /\ r.op = 0

\* The schema fields of the records of a table
SchemaFields(st) == {<<r.sheet, r.key, r.date, r.val>> : r \in st}

\* C32: the merge of a row that has been merged before, its lookup being
\* current, creates no record and changes no schema field.
C32_MergeIsIdempotent ==
    [][\A c \in Cycles :
           (/\ Merges(c)
            /\ MergedBefore(cyc[c].obj)
            /\ cyc[c].match = FindMatchingRecord(store, cyc[c].obj.sheet, cyc[c].obj))
               => SchemaFields(store') = SchemaFields(store)]_vars

-----------------------------------------------------------------------------
\* The position in the backend sheet of the row at index i of an unfiltered
\* read response: row 1 holds the headers, the data starts at row 2
SheetRowOf(i) == i + 2

\* C33: an update or delete of a record that a pull has merged is
\* transmitted with a rowIndex that is set and is the position of the
\* record's row in the backend sheet.
C33_RowIndexNamesTheBackendRow ==
    \A c \in Cycles :
        (/\ cyc[c].pc = "push"
         /\ Item(c).action \in {"update", "delete"} /\ Item(c).sheet # "profile"
         /\ Item(c).data.sheetRowIndex # Null)
            => /\ PushRequest(Item(c)).rowIndex # Null
               /\ PushRequest(Item(c)).rowIndex = SheetRowOf(Item(c).data.sheetRowIndex)

-----------------------------------------------------------------------------
(***************************************************************************)
(* Specification: profile writes against a gateway that accepts every      *)
(* request. saveProfile for two keys, cycles that push and are accepted,   *)
(* every read answering no rows.                                           *)
(***************************************************************************)
WriteOps == 2
WriteSyncs == 2

WriteKeys == {1, 2}

NextWrite ==
    \/ \E t \in MutSlots :
           \/ \E k \in WriteKeys, v \in SaveVals \cup UpdateVals :
                  SaveProfileWrite(t, k, v, WriteOps)
           \/ SaveProfileEnqueue(t, WriteSyncs)
    \/ TimerSync(WriteSyncs)
    \/ \E c \in Cycles :
           \/ PushAccepted(c)
           \/ RemoveSynced(c)
    \/ PullNothing

SpecWrite == InitFrom({EmptyImage}) /\ [][NextWrite]_vars

\* Every saveProfile call has returned, the queue is empty and no cycle runs
Drained ==
    /\ queue = {}
    /\ \A t \in MutSlots : mut[t].pc = "idle"
    /\ \A c \in Cycles : cyc[c].pc = "idle"

\* C34: once the queue is drained, every request having been accepted, the
\* backend's profile sheet holds the latest value of every key saved.
C34_ProfileSheetHoldsEveryKey ==
    Drained =>
        \A r \in store : r.sheet = "profile" => <<r.key, r.val>> \in remote

-----------------------------------------------------------------------------
\* C35: no record ever gets a second delete entry, and no update entry is
\* queued for a tombstoned record.
C35_OneDeleteEntryPerRecord ==
    /\ \A q1 \in DOMAIN stats, q2 \in DOMAIN stats :
           (/\ stats[q1].action = "delete" /\ stats[q2].action = "delete"
            /\ stats[q1].sheet = stats[q2].sheet /\ stats[q1].key = stats[q2].key)
               => q1 = q2
    /\ \A e \in queue : e.action = "update" => ~e.data.deleted

-----------------------------------------------------------------------------
(***************************************************************************)
(* Row codec. A cell is a string; NullCell stands for null. A value handed *)
(* to rowArrayToObject is an array of cells or, as in the response of      *)
(* handleRead, an object keyed by header.                                  *)
(***************************************************************************)
MaxCells == 3

Cells == {"", "x", "y"}

NullCell == "null"

\* obj[c] of a property the object does not have
Undefined == "undefined"

\* Two of the thirteen schemas of COLUMNS, two columns each
COLUMNS == [health |-> <<"date", "weight_kg">>, profile |-> <<"key", "value">>]

\* The sheet names the codec is called with; COLUMNS has no "nosuch"
CodecSheets == {"health", "profile", "nosuch"}

\* The property names of the objects of the codec; an object is a function
\* on them, Undefined where it has no such property
FieldNames == {"date", "weight_kg", "key", "value"}

EmptyObject == [c \in FieldNames |-> Undefined]

ArrayOf(cells) == [isArray |-> TRUE, cells |-> cells, fields |-> EmptyObject, rowIndex |-> Null]

\* arr.length as the comparison i < arr.length sees it: undefined, for a
\* value that is no array, makes it false for every i
LengthOf(arr) == IF arr.isArray THEN Len(arr.cells) ELSE 0

\* rowArrayToObject returns null
NullObject == "null"

RowArrayToObjectDroppingMissing(sheet, arr) ==
    IF sheet \notin DOMAIN COLUMNS THEN NullObject
    ELSE LET cols == COLUMNS[sheet]
         IN  [c \in FieldNames |->
                 IF c \notin Range(cols) THEN Undefined
                 ELSE LET i == CHOOSE j \in DOMAIN cols : cols[j] = c
                      IN  IF i - 1 < LengthOf(arr) THEN arr.cells[i] ELSE Undefined]

\* rowArrayToObject(sheet, arr)
RowArrayToObject(sheet, arr) ==
    IF sheet \notin DOMAIN COLUMNS THEN NullObject
    ELSE LET cols == COLUMNS[sheet]
         IN  [c \in FieldNames |->
                 IF c \notin Range(cols) THEN Undefined
                 ELSE LET i == CHOOSE j \in DOMAIN cols : cols[j] = c
                      IN  IF i - 1 < LengthOf(arr) THEN arr.cells[i] ELSE NullCell]

\* objectToRowArray(sheet, obj) over COLUMNS (ObjectToRowArray is the same
\* function on the records of the model)
EncodeRow(sheet, obj) ==
    IF sheet \notin DOMAIN COLUMNS THEN <<>>
    ELSE LET cols == COLUMNS[sheet]
         IN  [i \in DOMAIN cols |->
                 IF obj[cols[i]] # Undefined /\ obj[cols[i]] # NullCell
                 THEN obj[cols[i]] ELSE ""]

\* handleAppend writes the array of the request as the last row of the
\* sheet; handleRead answers each data row as an object keyed by the header
\* row, with _rowIndex = idx + 2
HandleRead(headers, values) ==
    [idx \in DOMAIN values |->
        [isArray |-> FALSE, cells |-> <<>>, rowIndex |-> (idx - 1) + 2,
         fields |-> [h \in FieldNames |->
                        IF h \notin Range(headers) THEN Undefined
                        ELSE LET i == CHOOSE j \in DOMAIN headers : headers[j] = h
                             IN  IF i <= Len(values[idx]) THEN values[idx][i] ELSE ""]]]

\* The objects the codec is called with: each property missing, null, empty
\* or set
CodecObjects == [FieldNames -> {"", "x", NullCell, Undefined}]

Decode(sheet, cells) ==
    /\ ret' = [call |-> "rowArrayToObject", sheet |-> sheet, key |-> cells,
               value |-> RowArrayToObject(sheet, ArrayOf(cells))]
    /\ UNCHANGED <<store, queue, nextId, nextQid, mut, cyc, now, online, scriptUrl,
                   remote, getVars, nOps, nSyncs, stats>>

Encode(sheet, obj) ==
    /\ ret' = [call |-> "objectToRowArray", sheet |-> sheet, key |-> obj,
               value |-> EncodeRow(sheet, obj)]
    /\ UNCHANGED <<store, queue, nextId, nextQid, mut, cyc, now, online, scriptUrl,
                   remote, getVars, nOps, nSyncs, stats>>

\* A record is encoded and appended to an empty sheet with the schema as its
\* header row, then read back and decoded as _pullFromSheets does
RoundTrip(sheet, obj) ==
    /\ sheet \in DOMAIN COLUMNS
    /\ LET rows == HandleRead(COLUMNS[sheet], <<EncodeRow(sheet, obj)>>)
       IN  ret' = [call |-> "roundTrip", sheet |-> sheet, key |-> obj,
                   value |-> RowArrayToObject(sheet, rows[1])]
    /\ UNCHANGED <<store, queue, nextId, nextQid, mut, cyc, now, online, scriptUrl,
                   remote, getVars, nOps, nSyncs, stats>>

NextCodec ==
    \E sheet \in CodecSheets :
        \/ \E cells \in SeqsUpTo(Cells, MaxCells) : Decode(sheet, cells)
        \/ \E obj \in CodecObjects : Encode(sheet, obj)
        \/ \E obj \in CodecObjects : RoundTrip(sheet, obj)

SpecCodec == InitFrom({EmptyImage}) /\ [][NextCodec]_vars

\* C36: a record that is appended and read back decodes to a record with
\* the same values in the schema fields it had set.
C36_RoundTripKeepsTheFields ==
    ret.call = "roundTrip" =>
        \A c \in Range(COLUMNS[ret.sheet]) :
            (ret.key[c] # Undefined /\ ret.key[c] # NullCell)
                => ret.value[c] = ret.key[c]

\* C39: decoding gives exactly the schema's fields, field i with the row's
\* i-th value and null beyond the row's length, and no record for an
\* unknown sheet; encoding gives an array of the schema's length in column
\* order, with '' for null and missing fields.
C39_CodecFollowsTheSchema ==
    /\ ret.call = "rowArrayToObject" =>
           IF ret.sheet \notin DOMAIN COLUMNS THEN ret.value = NullObject
           ELSE LET cols == COLUMNS[ret.sheet]
                IN  /\ \A c \in FieldNames \ Range(cols) : ret.value[c] = Undefined
                    /\ \A i \in DOMAIN cols :
                           ret.value[cols[i]] =
                               IF i <= Len(ret.key) THEN ret.key[i] ELSE NullCell
    /\ (ret.call = "objectToRowArray" /\ ret.sheet \in DOMAIN COLUMNS) =>
           LET cols == COLUMNS[ret.sheet]
           IN  /\ Len(ret.value) = Len(cols)
               /\ \A i \in DOMAIN cols :
                      ret.value[i] =
                          IF ret.key[cols[i]] \in {Undefined, NullCell} THEN ""
                          ELSE ret.key[cols[i]]

\* C39 witness: a row shorter than the schema has been decoded, its last
\* field to null
C39_ShortRowDecoded ==
    /\ ret.call = "rowArrayToObject" /\ ret.sheet = "health"
    /\ Len(ret.key) = 1
    /\ ret.value["date"] = ret.key[1] /\ ret.value["weight_kg"] = NullCell

-----------------------------------------------------------------------------
(***************************************************************************)
(* _findMatchingRecord over whole natural keys. A record and a pulled row  *)
(* have the fields id, date and time; a field is a string, NullCell or     *)
(* Undefined (id: a key of the table or Null).                             *)
(***************************************************************************)
MatchRecs == 2

MatchIds == {1, 2}

MatchDates == {NullCell, "", "d1"}

MatchTimes == {Undefined, "t1"}

\* const naturalKeys = {...}, for two of its ten types
naturalKeys == [health |-> <<"date">>, water |-> <<"date", "time">>]

MatchSheets == {"health", "water", "goals"}

NoMatch == [id |-> Null, date |-> Undefined, time |-> Undefined]

\* (v !== undefined && v !== null) ? String(v) : ''
KeyString(v) == IF v = Undefined \/ v = NullCell THEN "" ELSE v

\* `if (obj.date && ...)`: null, undefined and '' are falsy
Truthy(v) == v # Undefined /\ v # NullCell /\ v # ""

\* keys.every(k => a === b)
KeyFieldsMatch(sheet, cand, obj) ==
    \A i \in DOMAIN naturalKeys[sheet] :
        KeyString(cand[naturalKeys[sheet][i]]) = KeyString(obj[naturalKeys[sheet][i]])

\* index.getAll(obj.date): the records whose date is that key (a record
\* whose date is null or undefined is not in the index)
IndexGetAll(recs, date) ==
    {r \in recs : r.date # NullCell /\ r.date # Undefined /\ r.date = date}

\* _findMatchingRecord(db, sheet, obj) on a table with the records recs;
\* getAll answers in the order of the primary key
FindMatchingByKey(recs, sheet, obj) ==
    IF sheet = "goals"
    THEN IF OrNull(obj.id) # Null /\ \E r \in recs : r.id = obj.id
         THEN CHOOSE r \in recs : r.id = obj.id
         ELSE NoMatch
    ELSE IF Truthy(obj.date) /\ sheet \in DOMAIN naturalKeys
         THEN LET hits == {r \in IndexGetAll(recs, obj.date) :
                               KeyFieldsMatch(sheet, r, obj)}
              IN  IF hits = {} THEN NoMatch
                  ELSE CHOOSE r \in hits : \A x \in hits : r.id <= x.id
         ELSE NoMatch

\* The tables the function is called on: at most MatchRecs records, no two
\* with the same id
MatchTables ==
    {t \in SUBSET [id : MatchIds, date : MatchDates, time : MatchTimes] :
        /\ Cardinality(t) <= MatchRecs
        /\ \A r1 \in t, r2 \in t : r1.id = r2.id => r1 = r2}

MatchRows == [id : {Null} \cup MatchIds, date : MatchDates, time : MatchTimes]

FindMatch(sheet, recs, obj) ==
    /\ ret' = [call |-> "findMatchingRecord", sheet |-> sheet,
               key |-> [recs |-> recs, obj |-> obj],
               value |-> FindMatchingByKey(recs, sheet, obj)]
    /\ UNCHANGED <<store, queue, nextId, nextQid, mut, cyc, now, online, scriptUrl,
                   remote, getVars, nOps, nSyncs, stats>>

NextMatch ==
    \E sheet \in MatchSheets, recs \in MatchTables, obj \in MatchRows :
        FindMatch(sheet, recs, obj)

SpecMatch == InitFrom({EmptyImage}) /\ [][NextMatch]_vars

\* C37: a pulled row of a date-indexed type matches a local record exactly
\* when every field of the type's natural key is equal as a string, null and
\* absent values taken as ''; goals match on id; the match is such a record.
C37_MatchIsNaturalKeyEquality ==
    ret.call = "findMatchingRecord" =>
        LET recs == ret.key.recs
            obj  == ret.key.obj
            equal == IF ret.sheet = "goals"
                     THEN {r \in recs : r.id = obj.id}
                     ELSE {r \in recs : KeyFieldsMatch(ret.sheet, r, obj)}
        IN  /\ ret.value # NoMatch <=> equal # {}
            /\ ret.value # NoMatch => ret.value \in equal

-----------------------------------------------------------------------------
(***************************************************************************)
(* Retries: an entry is queued, no mutation is made any more, the client   *)
(* stays online and configured, the timer goes on starting cycles, and     *)
(* every push may be accepted, rejected or fail in transport.              *)
(***************************************************************************)
RetrySyncs == 3

NextRetry ==
    \/ TimerSync(RetrySyncs)
    \/ \E c \in Cycles :
           \/ Discard(c)
           \/ PushAccepted(c)
           \/ RemoveSynced(c)
           \/ PushRejected(c)
           \/ PushFailed(c)
    \/ PullNothing

\* setInterval goes on calling syncNow, every request is answered and every
\* cycle goes on
SpecRetry == InitFrom({PendingImage}) /\ [][NextRetry]_vars /\ WF_vars(NextRetry)

\* The queue becomes empty and stays so
QueueDrains == <>[](queue = {})

\* C38: with no further mutation, online and configured, the queue becomes
\* empty whatever the gateway answers, and no entry suffers more than
\* MAX_RETRIES failed attempts before it is accepted or discarded, overlapping
\* cycles included.
C38_QueueDrainsWithinThreeFailures ==
    /\ [](\A q \in DOMAIN stats : stats[q].failed <= MAX_RETRIES)
    /\ <>[](queue = {})

====
